---- MODULE Spec2Model ----
(***************************************************************************)
(* The LauraDB Python client: the request path of Client._request, the     *)
(* operations of Client and Collection on top of it, the Query,            *)
(* Aggregation and Index constructors, and the UpdateBuilder composer.     *)
(* The server the client talks to is modelled from the wire contract.      *)
(*                                                                         *)
(* Conventions.                                                            *)
(*  - A JSON / Python value is a record [t, v]: t is its type and v is     *)
(*    Python's str() of a scalar, the key->value function of a dict, or    *)
(*    the sequence of a list.                                              *)
(*  - A Python dict is a TLA+ function; d.get(k, default) is Get.          *)
(*  - A formatted string (an f-string, a URL, an exception message) is the *)
(*    sequence of its parts; concatenation is \o.  In a path "/" is always *)
(*    a part of its own and no other part contains "/".                    *)
(***************************************************************************)
EXTENDS Integers, Sequences, FiniteSets, TLC

VARIABLES
    requests_version,   \* the installed version of the HTTP library
    pc,                 \* where the current call stands
    call,               \* the facade operation and the _request arguments
    attempts,           \* requests put on the wire by the current call
    wire,               \* the last request put on the wire
    reply,              \* what session.request got back
    outcome,            \* how _request ended
    result,             \* how the facade operation ended
    cb_pc,              \* UpdateBuilder.combine: where the call stands
    cb_updates,         \* combine: the *updates argument
    cb_i,               \* combine: index of the update being merged
    cb_todo,            \* combine: operators of updates[cb_i] still to visit
    cb_result,          \* combine: the result dict
    bd_pc,              \* a builder call: where the caller stands
    bd_heap,            \* builder: the objects, by reference number
    bd_args,            \* builder: the references the caller passed and still holds
    bd_expr,            \* builder: the reference the constructor returned
    bd_snapshot,        \* builder: the value of the expression when it was returned
    bd_mutations,       \* builder: changes the caller made to its arguments since
    bd_later,           \* builder: constructor calls made since
    th_pc,              \* threads in combine: where each thread stands
    th_heap,            \* threads: the objects, by reference number
    th_initial,         \* threads: the objects as they were when the threads started
    th_updates,         \* threads: the references of the shared input documents
    th_i,               \* threads: each thread's index into updates
    th_todo,            \* threads: each thread's operators still to visit
    th_operator,        \* threads: the operator each thread is merging
    th_result,          \* threads: the reference of each thread's result dict
    ex_pc,              \* a constructor call: where the caller stands
    ex_fn,              \* constructor: the function called
    ex_args,            \* constructor: its arguments, by parameter name
    ex_value,           \* constructor: what it returned
    sv_docs,            \* the server: the documents of the collection
    sc_log              \* the calls made against that server and what they returned

vars == <<requests_version, pc, call, attempts, wire, reply, outcome, result,
          cb_pc, cb_updates, cb_i, cb_todo, cb_result,
          bd_pc, bd_heap, bd_args, bd_expr, bd_snapshot, bd_mutations, bd_later,
          th_pc, th_heap, th_initial, th_updates, th_i, th_todo, th_operator, th_result,
          ex_pc, ex_fn, ex_args, ex_value, sv_docs, sc_log>>

transport_vars == <<requests_version, pc, call, attempts, wire, reply, outcome, result>>
combine_vars == <<cb_pc, cb_updates, cb_i, cb_todo, cb_result>>
build_vars == <<bd_pc, bd_heap, bd_args, bd_expr, bd_snapshot, bd_mutations, bd_later>>
thread_vars == <<th_pc, th_heap, th_initial, th_updates, th_i, th_todo, th_operator, th_result>>
expr_vars == <<ex_pc, ex_fn, ex_args, ex_value>>
scenario_vars == <<sv_docs, sc_log>>

---------------------------------------------------------------------------
(* Bounds of the model *)

\* longest aggregation pipeline a caller passes
MaxStages == 3
\* most update documents passed to one combine call
MaxUpdates == 3
\* most operands a caller passes to Query.not_
MaxOperands == 2
\* most changes a caller makes to the arguments of a constructor afterwards
MaxMutations == 2
\* most builder calls that follow the one under watch
MaxLaterCalls == 1
\* most update documents the threads share
MaxSharedUpdates == 2
\* most conditions a caller passes to Query.and_ or Query.or_
MaxConditions == 3
\* most documents in the server's collection
MaxDocuments == 3

---------------------------------------------------------------------------
(* Python / JSON values *)

Str(s)  == [t |-> "str",  v |-> s]
Num(s)  == [t |-> "int",  v |-> s]
Bool(s) == [t |-> "bool", v |-> s]
None    == [t |-> "NoneType", v |-> "None"]
Dict(f) == [t |-> "dict", v |-> f]
List(s) == [t |-> "list", v |-> s]
True    == Bool("True")
False   == Bool("False")
EmptyDict == Dict(<<>>)

\* bool(x): Python's truth value
Truthy(x) ==
    CASE x.t = "str"      -> x.v # ""
      [] x.t = "int"      -> x.v # "0"
      [] x.t = "bool"     -> x.v = "True"
      [] x.t = "NoneType" -> FALSE
      [] x.t = "dict"     -> DOMAIN x.v # {}
      [] x.t = "list"     -> Len(x.v) > 0

\* a or b
PyOr(a, b) == IF Truthy(a) THEN a ELSE b

\* d.get(k, default) on a dict d
Get(d, k, default) == IF k \in DOMAIN d.v THEN d.v[k] ELSE default

\* d[k] = x
DictSet(d, k, x) ==
    Dict([j \in DOMAIN d.v \cup {k} |-> IF j = k THEN x ELSE d.v[j]])

\* hasattr(x, "get"): of the JSON types only dict has it
HasGet(x) == x.t = "dict"

\* str(n) for the small counts the model formats
Numeral(n) ==
    CASE n = 0 -> "0" [] n = 1 -> "1" [] n = 2 -> "2" [] n = 3 -> "3" [] n = 4 -> "4"
      [] n = 5 -> "5"

\* int(s) for the numerals the model uses
IntOf(s) ==
    CASE s = "-1" -> 0 - 1
      [] s = "0"  -> 0
      [] s = "1"  -> 1
      [] s = "2"  -> 2
      [] s = "3"  -> 3
      [] s = "5"  -> 5
      [] s = "10" -> 10
      [] s = "18" -> 18
      [] s = "25" -> 25
      [] s = "30" -> 30
      [] s = "35" -> 35

\* f"{x}" for a scalar
Format(x) == <<x.v>>

---------------------------------------------------------------------------
(* The HTTP library as Client._request uses it *)

\* install_requires: requests>=2.25.0
SupportedRequests == {"2.25.0", "2.26.0", "2.27.0"}

\* requests.exceptions.JSONDecodeError exists from 2.27.0 on; before that
\* Response.json() lets json.JSONDecodeError through
HasRequestsJSONDecodeError(version) == version \notin {"2.25.0", "2.26.0"}

\* the exception classes and their bases, as far as the except clause and
\* the callers can tell them apart
Bases(type) ==
    CASE type = "ConnectionError"             -> {"RequestException", "Exception"}
      [] type = "Timeout"                     -> {"RequestException", "Exception"}
      [] type = "HTTPError"                   -> {"RequestException", "Exception"}
      [] type = "requests.JSONDecodeError"    -> {"RequestException", "json.JSONDecodeError",
                                                  "ValueError", "Exception"}
      [] type = "json.JSONDecodeError"        -> {"ValueError", "Exception"}
      [] type = "ValueError"                  -> {"Exception"}
      [] type = "RuntimeError"                -> {"Exception"}
      [] type = "AttributeError"              -> {"Exception"}
      [] type = "TypeError"                   -> {"Exception"}
      [] type = "KeyError"                    -> {"LookupError", "Exception"}

IsInstance(e, cls) == e.type = cls \/ cls \in Bases(e.type)

Exc(type, msg) == [type |-> type, msg |-> msg]

Raise(e)  == [kind |-> "raise", exc |-> e]
Return(x) == [kind |-> "return", value |-> x]
Raised(o)   == o.kind = "raise"
Returned(o) == o.kind = "return"

---------------------------------------------------------------------------
(* What the network and the server can answer *)

Statuses == {200, 404, 500}

StatusStr(s) == CASE s = 200 -> "200" [] s = 404 -> "404" [] s = 500 -> "500"
Reason(s)    == CASE s = 200 -> "OK" [] s = 404 -> "Not Found"
                  [] s = 500 -> "Internal Server Error"

Absent == [t |-> "absent", v |-> ""]

EnvelopeKeys == {"ok", "message", "error", "result"}

SomeDocuments == List(<<Dict([k \in {"_id"} |-> Str("1")])>>)

\* a result that has every field a facade operation looks for
FullResult ==
    Dict([k \in {"id", "ids", "document", "documents", "count", "modified",
                 "deleted", "indexes", "collections"} |->
            CASE k = "id"          -> Str("1")
              [] k = "ids"         -> List(<<Str("1"), Str("2")>>)
              [] k = "document"    -> Dict([j \in {"_id"} |-> Str("1")])
              [] k = "documents"   -> SomeDocuments
              [] k = "count"       -> Num("3")
              [] k = "modified"    -> Num("1")
              [] k = "deleted"     -> Num("2")
              [] k = "indexes"     -> List(<<Dict([j \in {"name"} |-> Str("age_idx")])>>)
              [] k = "collections" -> List(<<Str("users")>>)])

\* the values a reply may carry under each key of the envelope; ok is a
\* boolean by the wire contract, and null, a number or a string when the
\* server breaks it
EnvelopeValues(k) ==
    CASE k = "ok"      -> {Absent, True, False, None, Num("1"), Str("false")}
      [] k = "message" -> {Absent, Str(""), Str("duplicate key"), Str("bad filter")}
      [] k = "error"   -> {Absent, Str("not found")}
      [] k = "result"  -> {Absent, None, EmptyDict, FullResult}

Envelope(choice) ==
    Dict([k \in {j \in EnvelopeKeys : choice[j] # Absent} |-> choice[k]])

Envelopes ==
    {Envelope(c) : c \in {f \in [EnvelopeKeys -> UNION {EnvelopeValues(k) : k \in EnvelopeKeys}] :
                              \A k \in EnvelopeKeys : f[k] \in EnvelopeValues(k)}}

\* a body that is no JSON text at all (an HTML error page, an empty body)
NotJson == [t |-> "notjson", v |-> "<html>"]

\* JSON texts that parse to something else than an object
NonObjects == {List(<<>>), Str("ok"), Num("1"), None}

Contents == {NotJson} \cup NonObjects \cup Envelopes

Response(status, content) == [kind |-> "response", status |-> status, content |-> content]
ConnectionRefused == [kind |-> "ConnectionError", status |-> 0, content |-> None]
ReadTimeout       == [kind |-> "Timeout", status |-> 0, content |-> None]
NoReply           == [kind |-> "none", status |-> 0, content |-> None]

NetworkFailures == {ConnectionRefused, ReadTimeout}
Replies == NetworkFailures \cup {Response(s, c) : s \in Statuses, c \in Contents}

---------------------------------------------------------------------------
(* Client *)

\* Client.__init__ with its defaults: f"{protocol}://{host}:{port}"
base_url == <<"http", "://", "localhost", ":", "8080">>

\* the adapter left to retry a failed connection once
max_retries_once == 0 + 1

\* HTTPAdapter(max_retries=0)
max_retries == 0

\* urljoin(base_url, path) for a path that starts with a single "/"
Urljoin(base, path) == base \o path

\* session.request(...): the exception a network failure raises
SessionRequest(r) ==
    CASE r.kind = "ConnectionError" -> Raise(Exc("ConnectionError", <<"Connection refused">>))
      [] r.kind = "Timeout"         -> Raise(Exc("Timeout", <<"Read timed out.">>))
      [] r.kind = "response"        -> Return(r)

\* response.raise_for_status()
RaiseForStatus(r, url) ==
    IF 400 <= r.status /\ r.status < 500
    THEN Raise(Exc("HTTPError",
              <<StatusStr(r.status), " Client Error: ", Reason(r.status), " for url: ">> \o url))
    ELSE IF 500 <= r.status /\ r.status < 600
    THEN Raise(Exc("HTTPError",
              <<StatusStr(r.status), " Server Error: ", Reason(r.status), " for url: ">> \o url))
    ELSE Return(None)

\* response.json()
ResponseJson(r, version) ==
    IF r.content = NotJson
    THEN Raise(Exc(IF HasRequestsJSONDecodeError(version)
                   THEN "requests.JSONDecodeError" ELSE "json.JSONDecodeError",
                   <<"Expecting value: line 1 column 1 (char 0)">>))
    ELSE Return(r.content)

\* the check with `error` looked up before `message`
CheckOk_error_first(data) ==
    IF ~HasGet(data)
    THEN Raise(Exc("AttributeError", <<"object has no attribute 'get'">>))
    ELSE IF ~Truthy(Get(data, "ok", False))
    THEN LET error_msg == PyOr(PyOr(Get(data, "error", None), Get(data, "message", None)),
                               Str("API request failed"))
         IN  Raise(Exc("ValueError", <<"LauraDB API error: ">> \o Format(error_msg)))
    ELSE Return(data)

\* the check with the server's message left out of the error
CheckOk_generic_message(data) ==
    IF ~HasGet(data)
    THEN Raise(Exc("AttributeError", <<"object has no attribute 'get'">>))
    ELSE IF ~Truthy(Get(data, "ok", False))
    THEN Raise(Exc("ValueError", <<"LauraDB API error: ">> \o Format(Str("API request failed"))))
    ELSE Return(data)

\* client.py:97-102: the check of the API-level error
CheckOk(data) ==
    IF ~HasGet(data)
    THEN Raise(Exc("AttributeError", <<"object has no attribute 'get'">>))
    ELSE IF ~Truthy(Get(data, "ok", False))
    THEN LET error_msg == PyOr(PyOr(Get(data, "message", None), Get(data, "error", None)),
                               Str("API request failed"))
         IN  Raise(Exc("ValueError", <<"LauraDB API error: ">> \o Format(error_msg)))
    ELSE Return(data)

\* the try block without response.raise_for_status()
TryBlock_no_status_check(r, url, version) ==
    LET sent == SessionRequest(r) IN
    IF Raised(sent) THEN sent
    ELSE LET parsed == ResponseJson(r, version) IN
         IF Raised(parsed) THEN parsed
         ELSE CheckOk(parsed.value)

\* the body of the try block, client.py:86-102
TryBlock(r, url, version) ==
    LET sent == SessionRequest(r) IN
    IF Raised(sent) THEN sent
    ELSE LET checked == RaiseForStatus(r, url) IN
         IF Raised(checked) THEN checked
         ELSE LET parsed == ResponseJson(r, version) IN
              IF Raised(parsed) THEN parsed
              ELSE CheckOk(parsed.value)

\* an except clause that names requests.HTTPError only
ExceptClause_http_error_only(o) ==
    IF Raised(o) /\ IsInstance(o.exc, "HTTPError")
    THEN Raise(Exc("RuntimeError", <<"HTTP request failed: ">> \o o.exc.msg))
    ELSE o

\* the except clause, client.py:104-105
ExceptClause(o) ==
    IF Raised(o) /\ IsInstance(o.exc, "RequestException")
    THEN Raise(Exc("RuntimeError", <<"HTTP request failed: ">> \o o.exc.msg))
    ELSE o

\* Client._request once session.request has its reply (or its failure)
Client_request(r, url, version) == ExceptClause(TryBlock(r, url, version))

---------------------------------------------------------------------------
(* Aggregation stages and the Collection facade *)

SingleKey(k, x) == Dict([j \in {k} |-> x])

Aggregation_match(filter)  == SingleKey("$match", filter)
Aggregation_sort(sort_spec) == SingleKey("$sort", sort_spec)
Aggregation_limit(count)   == SingleKey("$limit", count)

\* the stages callers put in their pipelines
Stages ==
    { Aggregation_match(SingleKey("age", SingleKey("$gte", Num("18")))),
      Aggregation_sort(SingleKey("avgAge", Num("-1"))),
      Aggregation_limit(Num("10")) }

SeqsUpTo(S, n) == UNION {[1..k -> S] : k \in 0..n}

Pipelines == SeqsUpTo(Stages, MaxStages)

\* collection names, as sequences of parts
Names == {<<"users">>, <<"orders">>}

\* Collection.__init__: f"/collections/{name}"
Collection_base_path(name) == <<"/", "collections", "/">> \o name

\* a pipeline with every stage that repeats its predecessor merged into it
MergeRepeats(pipeline) ==
    LET keep == {i \in 1..Len(pipeline) : i = 1 \/ pipeline[i] # pipeline[i - 1]}
        nth(k) == CHOOSE i \in keep : Cardinality({j \in keep : j <= i}) = k
    IN  [k \in 1..Cardinality(keep) |-> pipeline[nth(k)]]

\* aggregate sending an optimised pipeline
Collection_aggregate_request_merged(name, pipeline) ==
    [path   |-> <<"/", "collections", "/">> \o name \o <<"/", "aggregate">>,
     method |-> "POST",
     body   |-> [t |-> "dict", v |-> [j \in {"pipeline"} |->
                    [t |-> "list", v |-> MergeRepeats(pipeline)]]]]

\* Collection.aggregate: the arguments it passes to client._request
Collection_aggregate_request(name, pipeline) ==
    [path   |-> Collection_base_path(name) \o <<"/", "aggregate">>,
     method |-> "POST",
     body   |-> SingleKey("pipeline", List(pipeline))]

\* Collection.aggregate: response.get("result", {}).get("documents", [])
Collection_aggregate_unwrap(response) ==
    LET res == Get(response, "result", EmptyDict) IN
    IF ~HasGet(res)
    THEN Raise(Exc("AttributeError", <<"object has no attribute 'get'">>))
    ELSE Return(Get(res, "documents", List(<<>>)))

\* {k1: x1, k2: x2} and {k1: x1, k2: x2, k3: x3}
Dict2(k1, x1, k2, x2) == DictSet(SingleKey(k1, x1), k2, x2)
Dict3(k1, x1, k2, x2, k3, x3) == DictSet(Dict2(k1, x1, k2, x2), k3, x3)

\* what callers pass to the facade
SomeFilter     == SingleKey("age", SingleKey("$gte", Num("18")))
SomeProjection == SingleKey("name", Num("1"))
SomeSort       == SingleKey("age", Num("-1"))
SomeDocument   == SingleKey("name", Str("Alice"))
SomeUpdate     == SingleKey("$set", SingleKey("age", Num("5")))

\* an argument left out is None, the default of every optional parameter
Filters     == {None, EmptyDict, SomeFilter}
Projections == {None, EmptyDict, SomeProjection}
Sorts       == {None, EmptyDict, SomeSort}
Skips       == {None, Num("0"), Num("5")}
Limits      == {None, Num("0")}
IndexNames  == {<<"age_idx">>, <<"users">>}
IndexNameArgs == {None, Str(""), Str("age_idx")}

\* Collection.insert_one: the arguments it passes to client._request
Collection_insert_one_request(name, document) ==
    [path   |-> Collection_base_path(name) \o <<"/", "insert">>,
     method |-> "POST",
     body   |-> SingleKey("document", document)]

\* Collection.insert_many
Collection_insert_many_request(name, documents) ==
    [path   |-> Collection_base_path(name) \o <<"/", "insert-many">>,
     method |-> "POST",
     body   |-> SingleKey("documents", documents)]

\* Collection.find_one
Collection_find_one_request(name, filter, projection) ==
    LET body0 == SingleKey("filter", PyOr(filter, EmptyDict))
        body1 == IF Truthy(projection) THEN DictSet(body0, "projection", projection)
                 ELSE body0
    IN  [path   |-> Collection_base_path(name) \o <<"/", "find-one">>,
         method |-> "POST",
         body   |-> body1]

\* find with skip and limit tested for truth like projection and sort
Collection_find_request_if_truthy(name, filter, projection, sort, skip, limit) ==
    LET body0 == [t |-> "dict", v |-> [j \in {"filter"} |-> PyOr(filter, EmptyDict)]]
        body1 == IF Truthy(projection) THEN DictSet(body0, "projection", projection)
                 ELSE body0
        body2 == IF Truthy(sort) THEN DictSet(body1, "sort", sort) ELSE body1
        body3 == IF Truthy(skip) THEN DictSet(body2, "skip", skip) ELSE body2
        body4 == IF Truthy(limit) THEN DictSet(body3, "limit", limit) ELSE body3
    IN  [path   |-> <<"/", "collections", "/">> \o name \o <<"/", "find">>,
         method |-> "POST",
         body   |-> body4]

\* Collection.find
Collection_find_request(name, filter, projection, sort, skip, limit) ==
    LET body0 == SingleKey("filter", PyOr(filter, EmptyDict))
        body1 == IF Truthy(projection) THEN DictSet(body0, "projection", projection)
                 ELSE body0
        body2 == IF Truthy(sort) THEN DictSet(body1, "sort", sort) ELSE body1
        body3 == IF skip # None THEN DictSet(body2, "skip", skip) ELSE body2
        body4 == IF limit # None THEN DictSet(body3, "limit", limit) ELSE body3
    IN  [path   |-> Collection_base_path(name) \o <<"/", "find">>,
         method |-> "POST",
         body   |-> body4]

\* a count that leaves the caller's filter out of the body
Collection_count_request_unfiltered(name, filter) ==
    [path   |-> <<"/", "collections", "/">> \o name \o <<"/", "count">>,
     method |-> "POST",
     body   |-> [t |-> "dict", v |-> [j \in {"filter"} |-> EmptyDict]]]

\* Collection.count
Collection_count_request(name, filter) ==
    [path   |-> Collection_base_path(name) \o <<"/", "count">>,
     method |-> "POST",
     body   |-> SingleKey("filter", PyOr(filter, EmptyDict))]

\* Collection.update_one
Collection_update_one_request(name, filter, update) ==
    [path   |-> Collection_base_path(name) \o <<"/", "update-one">>,
     method |-> "POST",
     body   |-> Dict2("filter", filter, "update", update)]

\* Collection.update_many
Collection_update_many_request(name, filter, update) ==
    [path   |-> Collection_base_path(name) \o <<"/", "update-many">>,
     method |-> "POST",
     body   |-> Dict2("filter", filter, "update", update)]

\* Collection.delete_one
Collection_delete_one_request(name, filter) ==
    [path   |-> Collection_base_path(name) \o <<"/", "delete-one">>,
     method |-> "POST",
     body   |-> SingleKey("filter", filter)]

\* delete_many sent to the path of delete_one
Collection_delete_many_request_one(name, filter) ==
    [path   |-> <<"/", "collections", "/">> \o name \o <<"/", "delete-one">>,
     method |-> "POST",
     body   |-> [t |-> "dict", v |-> [j \in {"filter"} |-> filter]]]

\* Collection.delete_many
Collection_delete_many_request(name, filter) ==
    [path   |-> Collection_base_path(name) \o <<"/", "delete-many">>,
     method |-> "POST",
     body   |-> SingleKey("filter", filter)]

\* if name: body["name"] = name
WithName(body, name) == IF Truthy(name) THEN DictSet(body, "name", name) ELSE body

\* Collection.create_index
Collection_create_index_request(name, field, unique, index_name, sparse) ==
    [path   |-> Collection_base_path(name) \o <<"/", "indexes">>,
     method |-> "POST",
     body   |-> WithName(Dict3("field", field, "unique", unique, "sparse", sparse),
                         index_name)]

\* Collection.create_compound_index
Collection_create_compound_index_request(name, fields, unique, index_name) ==
    [path   |-> Collection_base_path(name) \o <<"/", "indexes", "/", "compound">>,
     method |-> "POST",
     body   |-> WithName(Dict2("fields", fields, "unique", unique), index_name)]

\* Collection.create_text_index
Collection_create_text_index_request(name, fields, index_name) ==
    [path   |-> Collection_base_path(name) \o <<"/", "indexes", "/", "text">>,
     method |-> "POST",
     body   |-> WithName(SingleKey("fields", fields), index_name)]

\* Collection.create_geo_index
Collection_create_geo_index_request(name, field, geo_type, index_name) ==
    [path   |-> Collection_base_path(name) \o <<"/", "indexes", "/", "geo">>,
     method |-> "POST",
     body   |-> WithName(Dict2("field", field, "geoType", geo_type), index_name)]

\* Collection.create_ttl_index
Collection_create_ttl_index_request(name, field, expire_after_seconds, index_name) ==
    [path   |-> Collection_base_path(name) \o <<"/", "indexes", "/", "ttl">>,
     method |-> "POST",
     body   |-> WithName(Dict2("field", field, "expireAfterSeconds", expire_after_seconds),
                         index_name)]

\* Collection.create_partial_index
Collection_create_partial_index_request(name, field, filter_expr, unique, index_name) ==
    [path   |-> Collection_base_path(name) \o <<"/", "indexes", "/", "partial">>,
     method |-> "POST",
     body   |-> WithName(Dict3("field", field, "filterExpression", filter_expr,
                               "unique", unique), index_name)]

\* Collection.list_indexes
Collection_list_indexes_request(name) ==
    [path   |-> Collection_base_path(name) \o <<"/", "indexes">>,
     method |-> "GET",
     body   |-> None]

\* Collection.drop_index
Collection_drop_index_request(name, index_name) ==
    [path   |-> Collection_base_path(name) \o <<"/", "indexes", "/">> \o index_name,
     method |-> "DELETE",
     body   |-> None]

\* Collection.stats
Collection_stats_request(name) ==
    [path   |-> Collection_base_path(name) \o <<"/", "stats">>,
     method |-> "GET",
     body   |-> None]

\* Client.ping, Client.stats, Client.list_collections
Client_ping_request == [path |-> <<"/", "ping">>, method |-> "GET", body |-> None]
Client_stats_request == [path |-> <<"/", "stats">>, method |-> "GET", body |-> None]
Client_list_collections_request ==
    [path |-> <<"/", "collections">>, method |-> "GET", body |-> None]

\* Client.create_collection, Client.drop_collection: f"/collections/{name}"
Client_create_collection_request(name) ==
    [path |-> <<"/", "collections", "/">> \o name, method |-> "POST", body |-> None]
Client_drop_collection_request(name) ==
    [path |-> <<"/", "collections", "/">> \o name, method |-> "DELETE", body |-> None]

\* x.get(...) on whatever response.get("result", {}) gave
NoGet == Raise(Exc("AttributeError", <<"object has no attribute 'get'">>))

\* a facade that reads the field without a default
ResultField_required(response, field, default) ==
    LET res == Get(response, "result", EmptyDict) IN
    IF ~HasGet(res) THEN NoGet
    ELSE IF field \in DOMAIN res.v THEN Return(res.v[field])
    ELSE Raise(Exc("KeyError", <<field>>))

\* response.get("result", {}).get(field, default)
ResultField(response, field, default) ==
    LET res == Get(response, "result", EmptyDict) IN
    IF ~HasGet(res) THEN NoGet
    ELSE Return(Get(res, field, default))

\* x > 0 on what .get(field, 0) returned
GreaterThanZero(o) ==
    IF Raised(o) THEN o
    ELSE IF o.value.t = "int"
    THEN Return(IF IntOf(o.value.v) > 0 THEN True ELSE False)
    ELSE Raise(Exc("TypeError", <<"'>' not supported between instances">>))

\* return response.get("ok", False): create_*_index, drop_index,
\* create_collection, drop_collection
OkFlag(response) == Return(Get(response, "ok", False))

\* Client.ping: try: return _request(...).get("ok", False); except Exception: return False
Client_ping(o) ==
    IF Raised(o)
    THEN (IF IsInstance(o.exc, "Exception") THEN Return(False) ELSE o)
    ELSE Return(Get(o.value, "ok", False))

OkFlagOps == {"create_index", "create_compound_index", "create_text_index",
              "create_geo_index", "create_ttl_index", "create_partial_index",
              "drop_index", "create_collection", "drop_collection"}

\* a facade that answers an error of _request with None
FacadeResult_swallow(op, o) ==
    IF op = "ping" THEN Client_ping(o)
    ELSE IF Raised(o) THEN Return(None)
    ELSE o

\* what the facade operation makes of the way _request ended, the return
\* statement of each operation: only ping has a try block around its call
FacadeResult(op, o) ==
    IF op = "ping" THEN Client_ping(o)
    ELSE IF Raised(o) THEN o
    ELSE CASE op = "_request"         -> o
           [] op = "aggregate"        -> Collection_aggregate_unwrap(o.value)
           [] op = "insert_one"       -> ResultField(o.value, "id", Str(""))
           [] op = "insert_many"      -> ResultField(o.value, "ids", List(<<>>))
           [] op = "find_one"         -> ResultField(o.value, "document", None)
           [] op = "find"             -> ResultField(o.value, "documents", List(<<>>))
           [] op = "count"            -> ResultField(o.value, "count", Num("0"))
           [] op = "update_one"       ->
                GreaterThanZero(ResultField(o.value, "modified", Num("0")))
           [] op = "update_many"      -> ResultField(o.value, "modified", Num("0"))
           [] op = "delete_one"       ->
                GreaterThanZero(ResultField(o.value, "deleted", Num("0")))
           [] op = "delete_many"      -> ResultField(o.value, "deleted", Num("0"))
           [] op = "list_indexes"     -> ResultField(o.value, "indexes", List(<<>>))
           [] op = "collection_stats" -> Return(Get(o.value, "result", EmptyDict))
           [] op = "stats"            -> Return(Get(o.value, "result", EmptyDict))
           [] op = "list_collections" -> ResultField(o.value, "collections", List(<<>>))
           [] op \in OkFlagOps        -> OkFlag(o.value)

---------------------------------------------------------------------------
(* One call through the client *)

\* (record fields are written in the order TLC keeps them in)
NoCall == [op |-> "none", path |-> <<>>, method |-> "", body |-> None, arg |-> None]
NoWire == [url |-> <<>>, method |-> "", json |-> None]
NoOutcome == [kind |-> "none"]

Methods == {"GET", "POST", "DELETE"}
Paths   == {<<"/", "ping">>, <<"/", "collections", "/", "users">>}
Bodies  == {None, SingleKey("document", SingleKey("name", Str("Alice")))}

\* a caller invokes client._request(method, path, body) directly
Request_call ==
    /\ pc = "idle"
    /\ \E m \in Methods, p \in Paths, b \in Bodies :
        call' = [op |-> "_request", path |-> p, method |-> m, body |-> b, arg |-> None]
    /\ pc' = "send"
    /\ UNCHANGED <<requests_version, attempts, wire, reply, outcome, result, combine_vars, build_vars, thread_vars, expr_vars, scenario_vars>>

\* a caller invokes collection.aggregate(pipeline)
Aggregate_call ==
    /\ pc = "idle"
    /\ \E n \in Names, pl \in Pipelines :
        LET rq == Collection_aggregate_request(n, pl) IN
        call' = [op |-> "aggregate", path |-> rq.path, method |-> rq.method,
                 body |-> rq.body,
                 arg |-> Dict2("name", Str(n[1]), "pipeline", List(pl))]
    /\ pc' = "send"
    /\ UNCHANGED <<requests_version, attempts, wire, reply, outcome, result, combine_vars, build_vars, thread_vars, expr_vars, scenario_vars>>

\* Query.in_, Query.nin, Query.all_, Query.size: the operand goes in as it is
Query_in(field, values)  == SingleKey(field, SingleKey("$in", values))
Query_nin(field, values) == SingleKey(field, SingleKey("$nin", values))
Query_all(field, values) == SingleKey(field, SingleKey("$all", values))
Query_size(field, size)  == SingleKey(field, SingleKey("$size", size))

Comparisons == {"in_", "nin", "all_", "size"}

\* operands of the right type and of wrong ones
Operands == {List(<<Num("1"), Num("2")>>), Num("3"), Str("abc")}

\* the call Query.<constructor>(field, operand)
QueryCompare(constructor, field, operand) ==
    CASE constructor = "in_"  -> Query_in(field, operand)
      [] constructor = "nin"  -> Query_nin(field, operand)
      [] constructor = "all_" -> Query_all(field, operand)
      [] constructor = "size" -> Query_size(field, operand)

\* a not_ declared with *conditions, taking the first one if there is any
Query_not_variadic(operands) ==
    Return([t |-> "dict", v |-> [j \in {"$not"} |->
              IF Len(operands) > 0 THEN operands[1] ELSE EmptyDict]])

\* Query.not_(*operands): the function has one positional parameter, so the
\* call itself raises TypeError for any other number of arguments
Query_not(operands) ==
    IF Len(operands) = 0
    THEN Raise(Exc("TypeError",
                   <<"not_() missing 1 required positional argument: 'condition'">>))
    ELSE IF Len(operands) > 1
    THEN Raise(Exc("TypeError",
                   <<"not_() takes 1 positional argument but ", Numeral(Len(operands)),
                     " were given">>))
    ELSE Return(SingleKey("$not", operands[1]))

\* a caller invokes collection.find(Query.not_(*operands)): the argument is
\* evaluated first, and find is entered only if that returned
Find_not_call ==
    /\ pc = "idle"
    /\ \E n \in Names, operands \in SeqsUpTo({SomeFilter}, MaxOperands) :
        LET built == Query_not(operands)
            rq == Collection_find_request(n, IF Raised(built) THEN None ELSE built.value,
                                          None, None, None, None)
        IN  IF Raised(built)
            THEN /\ call' = [op |-> "find", path |-> <<>>, method |-> "", body |-> None,
                             arg |-> Dict2("name", Str(n[1]), "operands", List(operands))]
                 /\ result' = built
                 /\ pc' = "raised"
            ELSE /\ call' = [op |-> "find", path |-> rq.path, method |-> rq.method,
                             body |-> rq.body,
                             arg |-> Dict2("name", Str(n[1]), "operands", List(operands))]
                 /\ result' = result
                 /\ pc' = "send"
    /\ UNCHANGED <<requests_version, attempts, wire, reply, outcome, combine_vars, build_vars, thread_vars, expr_vars, scenario_vars>>

\* a caller invokes collection.find(Query.in_(field, operand)), or the same
\* with nin, all_ or size
Find_compare_call ==
    /\ pc = "idle"
    /\ \E n \in Names, c \in Comparisons, x \in Operands :
        LET rq == Collection_find_request(n, QueryCompare(c, "tags", x),
                                          None, None, None, None) IN
        call' = [op |-> "find", path |-> rq.path, method |-> rq.method,
                 body |-> rq.body,
                 arg |-> Dict3("name", Str(n[1]), "constructor", Str(c), "operand", x)]
    /\ pc' = "send"
    /\ UNCHANGED <<requests_version, attempts, wire, reply, outcome, result, combine_vars, build_vars, thread_vars, expr_vars, scenario_vars>>

\* a caller invokes collection.insert_one(document)
Insert_one_call ==
    /\ pc = "idle"
    /\ \E n \in Names :
        LET rq == Collection_insert_one_request(n, SomeDocument) IN
        call' = [op |-> "insert_one", path |-> rq.path, method |-> rq.method,
                 body |-> rq.body, arg |-> SingleKey("name", Str(n[1]))]
    /\ pc' = "send"
    /\ UNCHANGED <<requests_version, attempts, wire, reply, outcome, result, combine_vars, build_vars, thread_vars, expr_vars, scenario_vars>>

\* collection.insert_many(documents)
Insert_many_call ==
    /\ pc = "idle"
    /\ \E n \in Names :
        LET rq == Collection_insert_many_request(n, List(<<SomeDocument, SomeDocument>>)) IN
        call' = [op |-> "insert_many", path |-> rq.path, method |-> rq.method,
                 body |-> rq.body, arg |-> SingleKey("name", Str(n[1]))]
    /\ pc' = "send"
    /\ UNCHANGED <<requests_version, attempts, wire, reply, outcome, result, combine_vars, build_vars, thread_vars, expr_vars, scenario_vars>>

\* collection.find_one(filter, projection)
Find_one_call ==
    /\ pc = "idle"
    /\ \E n \in Names, f \in Filters, p \in Projections :
        LET rq == Collection_find_one_request(n, f, p) IN
        call' = [op |-> "find_one", path |-> rq.path, method |-> rq.method,
                 body |-> rq.body,
                 arg |-> Dict3("name", Str(n[1]), "filter", f, "projection", p)]
    /\ pc' = "send"
    /\ UNCHANGED <<requests_version, attempts, wire, reply, outcome, result, combine_vars, build_vars, thread_vars, expr_vars, scenario_vars>>

\* collection.find(filter, projection, sort, skip, limit)
Find_call ==
    /\ pc = "idle"
    /\ \E n \in Names, p \in Projections, s \in Sorts, sk \in Skips, l \in Limits :
        LET rq == Collection_find_request(n, SomeFilter, p, s, sk, l) IN
        call' = [op |-> "find", path |-> rq.path, method |-> rq.method,
                 body |-> rq.body,
                 arg |-> Dict([k \in {"name", "filter", "projection", "sort", "skip", "limit"} |->
                            CASE k = "name"       -> Str(n[1])
                              [] k = "filter"     -> SomeFilter
                              [] k = "projection" -> p
                              [] k = "sort"       -> s
                              [] k = "skip"       -> sk
                              [] k = "limit"      -> l])]
    /\ pc' = "send"
    /\ UNCHANGED <<requests_version, attempts, wire, reply, outcome, result, combine_vars, build_vars, thread_vars, expr_vars, scenario_vars>>

\* collection.count(filter)
Count_call ==
    /\ pc = "idle"
    /\ \E n \in Names, f \in Filters :
        LET rq == Collection_count_request(n, f) IN
        call' = [op |-> "count", path |-> rq.path, method |-> rq.method,
                 body |-> rq.body, arg |-> Dict2("name", Str(n[1]), "filter", f)]
    /\ pc' = "send"
    /\ UNCHANGED <<requests_version, attempts, wire, reply, outcome, result, combine_vars, build_vars, thread_vars, expr_vars, scenario_vars>>

\* collection.update_one(filter, update) and collection.update_many(filter, update)
Update_call ==
    /\ pc = "idle"
    /\ \E n \in Names, many \in BOOLEAN :
        LET rq == IF many THEN Collection_update_many_request(n, SomeFilter, SomeUpdate)
                  ELSE Collection_update_one_request(n, SomeFilter, SomeUpdate) IN
        call' = [op |-> IF many THEN "update_many" ELSE "update_one",
                 path |-> rq.path, method |-> rq.method,
                 body |-> rq.body, arg |-> SingleKey("name", Str(n[1]))]
    /\ pc' = "send"
    /\ UNCHANGED <<requests_version, attempts, wire, reply, outcome, result, combine_vars, build_vars, thread_vars, expr_vars, scenario_vars>>

\* collection.delete_one(filter) and collection.delete_many(filter)
Delete_call ==
    /\ pc = "idle"
    /\ \E n \in Names, many \in BOOLEAN :
        LET rq == IF many THEN Collection_delete_many_request(n, SomeFilter)
                  ELSE Collection_delete_one_request(n, SomeFilter) IN
        call' = [op |-> IF many THEN "delete_many" ELSE "delete_one",
                 path |-> rq.path, method |-> rq.method,
                 body |-> rq.body, arg |-> SingleKey("name", Str(n[1]))]
    /\ pc' = "send"
    /\ UNCHANGED <<requests_version, attempts, wire, reply, outcome, result, combine_vars, build_vars, thread_vars, expr_vars, scenario_vars>>

IndexKinds == {"create_index", "create_compound_index", "create_text_index",
               "create_geo_index", "create_ttl_index", "create_partial_index"}

\* the request of the create_*_index operation `kind`, with the other
\* arguments as the callers of the examples give them
CreateIndexRequest(kind, n, index_name) ==
    CASE kind = "create_index" ->
            Collection_create_index_request(n, Str("email"), True, index_name, False)
      [] kind = "create_compound_index" ->
            Collection_create_compound_index_request(
                n, List(<<Str("city"), Str("age")>>), False, index_name)
      [] kind = "create_text_index" ->
            Collection_create_text_index_request(n, List(<<Str("title")>>), index_name)
      [] kind = "create_geo_index" ->
            Collection_create_geo_index_request(n, Str("location"), Str("2dsphere"), index_name)
      [] kind = "create_ttl_index" ->
            Collection_create_ttl_index_request(n, Str("createdAt"), Num("10"), index_name)
      [] kind = "create_partial_index" ->
            Collection_create_partial_index_request(n, Str("email"), SomeFilter, True,
                                                    index_name)

\* collection.create_index(...) and the other create_*_index operations
Create_index_call ==
    /\ pc = "idle"
    /\ \E n \in Names, kind \in IndexKinds, i \in IndexNameArgs :
        LET rq == CreateIndexRequest(kind, n, i) IN
        call' = [op |-> kind, path |-> rq.path, method |-> rq.method,
                 body |-> rq.body, arg |-> Dict2("name", Str(n[1]), "index", i)]
    /\ pc' = "send"
    /\ UNCHANGED <<requests_version, attempts, wire, reply, outcome, result, combine_vars, build_vars, thread_vars, expr_vars, scenario_vars>>

\* collection.list_indexes() and collection.stats()
Collection_read_call ==
    /\ pc = "idle"
    /\ \E n \in Names, o \in {"list_indexes", "collection_stats"} :
        LET rq == IF o = "list_indexes" THEN Collection_list_indexes_request(n)
                  ELSE Collection_stats_request(n) IN
        call' = [op |-> o, path |-> rq.path, method |-> rq.method,
                 body |-> rq.body, arg |-> SingleKey("name", Str(n[1]))]
    /\ pc' = "send"
    /\ UNCHANGED <<requests_version, attempts, wire, reply, outcome, result, combine_vars, build_vars, thread_vars, expr_vars, scenario_vars>>

\* collection.drop_index(name)
Drop_index_call ==
    /\ pc = "idle"
    /\ \E n \in Names, i \in IndexNames :
        LET rq == Collection_drop_index_request(n, i) IN
        call' = [op |-> "drop_index", path |-> rq.path, method |-> rq.method,
                 body |-> rq.body, arg |-> Dict2("name", Str(n[1]), "index", Str(i[1]))]
    /\ pc' = "send"
    /\ UNCHANGED <<requests_version, attempts, wire, reply, outcome, result, combine_vars, build_vars, thread_vars, expr_vars, scenario_vars>>

\* client.ping()
Ping_call ==
    /\ pc = "idle"
    /\ call' = [op |-> "ping", path |-> Client_ping_request.path,
                method |-> Client_ping_request.method,
                body |-> Client_ping_request.body, arg |-> None]
    /\ pc' = "send"
    /\ UNCHANGED <<requests_version, attempts, wire, reply, outcome, result, combine_vars, build_vars, thread_vars, expr_vars, scenario_vars>>

\* client.stats() and client.list_collections()
Client_read_call ==
    /\ pc = "idle"
    /\ \E o \in {"stats", "list_collections"} :
        LET rq == IF o = "stats" THEN Client_stats_request
                  ELSE Client_list_collections_request IN
        call' = [op |-> o, path |-> rq.path, method |-> rq.method,
                 body |-> rq.body, arg |-> None]
    /\ pc' = "send"
    /\ UNCHANGED <<requests_version, attempts, wire, reply, outcome, result, combine_vars, build_vars, thread_vars, expr_vars, scenario_vars>>

\* client.create_collection(name) and client.drop_collection(name)
Client_collection_call ==
    /\ pc = "idle"
    /\ \E n \in Names, o \in {"create_collection", "drop_collection"} :
        LET rq == IF o = "create_collection" THEN Client_create_collection_request(n)
                  ELSE Client_drop_collection_request(n) IN
        call' = [op |-> o, path |-> rq.path, method |-> rq.method,
                 body |-> rq.body, arg |-> SingleKey("name", Str(n[1]))]
    /\ pc' = "send"
    /\ UNCHANGED <<requests_version, attempts, wire, reply, outcome, result, combine_vars, build_vars, thread_vars, expr_vars, scenario_vars>>

\* session.request: the adapter puts the request on the wire; the network
\* fails or the server answers; a network failure is retried while the
\* adapter's max_retries allows
Session_request ==
    /\ pc = "send"
    /\ \E r \in Replies :
        /\ attempts' = attempts + 1
        /\ wire' = [url |-> Urljoin(base_url, call.path), method |-> call.method,
                    json |-> call.body]
        /\ IF r \in NetworkFailures /\ attempts + 1 <= max_retries
           THEN pc' = "send" /\ reply' = reply
           ELSE pc' = "replied" /\ reply' = r
    /\ UNCHANGED <<requests_version, call, outcome, result, combine_vars, build_vars, thread_vars, expr_vars, scenario_vars>>

\* the rest of _request, and of the facade operation that called it
Request_finish ==
    /\ pc = "replied"
    /\ outcome' = Client_request(reply, wire.url, requests_version)
    /\ result' = FacadeResult(call.op, outcome')
    /\ pc' = "done"
    /\ UNCHANGED <<requests_version, call, attempts, wire, reply, combine_vars, build_vars, thread_vars, expr_vars, scenario_vars>>

\* the caller has its result or its exception; the client holds nothing of
\* the call and is ready for the next one
Caller_continue ==
    /\ pc \in {"done", "raised"}
    /\ pc' = "idle"
    /\ call' = NoCall
    /\ attempts' = 0
    /\ wire' = NoWire
    /\ reply' = NoReply
    /\ outcome' = NoOutcome
    /\ result' = NoOutcome
    /\ UNCHANGED <<requests_version, combine_vars, build_vars, thread_vars, expr_vars, scenario_vars>>

---------------------------------------------------------------------------
(* UpdateBuilder *)

UpdateBuilder_set(field, value) == SingleKey("$set", SingleKey(field, value))
UpdateBuilder_unset(field)      == SingleKey("$unset", SingleKey(field, Str("")))
UpdateBuilder_inc(field, amount) == SingleKey("$inc", SingleKey(field, amount))

Fields == {"a", "b"}

\* update documents as the constructors build them
BuiltUpdates ==
    {UpdateBuilder_set(f, x) : f \in Fields, x \in {Num("1"), Num("2")}}
    \cup {UpdateBuilder_unset(f) : f \in Fields}
    \cup {UpdateBuilder_inc(f, Num("1")) : f \in Fields}

\* update documents with several operators and several fields, written by
\* hand or returned by an earlier combine
WrittenUpdates ==
    { Dict([o \in {"$set", "$inc"} |->
              IF o = "$set" THEN Dict([f \in Fields |-> Num("2")])
              ELSE SingleKey("a", Num("2"))]),
      EmptyDict }

Updates == BuiltUpdates \cup WrittenUpdates

\* an update that keeps the entries d already has
DictUpdate_keep_first(d, other) ==
    [t |-> "dict", v |-> [k \in DOMAIN d.v \cup DOMAIN other.v |->
                            IF k \in DOMAIN d.v THEN d.v[k] ELSE other.v[k]]]

\* d.update(other) on dicts
DictUpdate(d, other) ==
    Dict([k \in DOMAIN d.v \cup DOMAIN other.v |->
            IF k \in DOMAIN other.v THEN other.v[k] ELSE d.v[k]])

\* result[operator] = fields: the operator's map overwritten, not merged
CombineItem_overwrite(res, operator, fields) ==
    [t |-> "dict", v |-> [j \in DOMAIN res.v \cup {operator} |->
                            IF j = operator THEN fields ELSE res.v[j]]]

\* query.py:265-267: one (operator, fields) item merged into result
CombineItem(res, operator, fields) ==
    LET made == IF operator \notin DOMAIN res.v THEN DictSet(res, operator, EmptyDict)
                ELSE res
    IN  DictSet(made, operator, DictUpdate(made.v[operator], fields))

\* the operators of updates[i], none past the end
ItemsOf(updates, i) == IF i <= Len(updates) THEN DOMAIN updates[i].v ELSE {}

\* the two loops of combine, from the result so far, the updates still to
\* merge and the operators of the first of them still to visit
RECURSIVE CombineLoop(_, _, _)
CombineLoop(res, updates, todo) ==
    IF updates = <<>> THEN res
    ELSE IF todo = {}
    THEN CombineLoop(res, Tail(updates), ItemsOf(updates, 2))
    ELSE LET operator == CHOOSE o \in todo : TRUE IN
         CombineLoop(CombineItem(res, operator, Head(updates).v[operator]),
                     updates, todo \ {operator})

\* a combine whose loop starts at the second update
UpdateBuilder_combine_from_second(updates) ==
    IF updates = <<>> THEN EmptyDict
    ELSE CombineLoop(EmptyDict, Tail(updates), ItemsOf(updates, 2))

\* UpdateBuilder.combine(*updates) as a function of its arguments
UpdateBuilder_combine(updates) == CombineLoop(EmptyDict, updates, ItemsOf(updates, 1))

\* result = {} and the first update taken up
Combine_call ==
    /\ cb_pc = "idle"
    /\ \E us \in SeqsUpTo(Updates, MaxUpdates) :
        /\ cb_updates' = us
        /\ cb_todo' = ItemsOf(us, 1)
    /\ cb_result' = EmptyDict
    /\ cb_i' = 1
    /\ cb_pc' = "loop"
    /\ UNCHANGED <<transport_vars, build_vars, thread_vars, expr_vars, scenario_vars>>

\* one pass of the inner loop; the items of the update are taken in any order
Combine_item ==
    /\ cb_pc = "loop"
    /\ \E operator \in cb_todo :
        /\ cb_result' = CombineItem(cb_result, operator, cb_updates[cb_i].v[operator])
        /\ cb_todo' = cb_todo \ {operator}
    /\ UNCHANGED <<cb_pc, cb_updates, cb_i, transport_vars, build_vars, thread_vars, expr_vars, scenario_vars>>

\* the outer loop goes on to the next update
Combine_next ==
    /\ cb_pc = "loop"
    /\ cb_todo = {}
    /\ cb_i <= Len(cb_updates)
    /\ cb_i' = cb_i + 1
    /\ cb_todo' = ItemsOf(cb_updates, cb_i + 1)
    /\ UNCHANGED <<cb_pc, cb_updates, cb_result, transport_vars, build_vars, thread_vars, expr_vars, scenario_vars>>

\* return result
Combine_return ==
    /\ cb_pc = "loop"
    /\ cb_i > Len(cb_updates)
    /\ cb_pc' = "done"
    /\ UNCHANGED <<cb_updates, cb_i, cb_todo, cb_result, transport_vars, build_vars, thread_vars, expr_vars, scenario_vars>>

\* the caller has the combined document; nothing of the call is kept
Combine_continue ==
    /\ cb_pc = "done"
    /\ cb_pc' = "idle"
    /\ cb_updates' = <<>>
    /\ cb_i' = 1
    /\ cb_todo' = {}
    /\ cb_result' = EmptyDict
    /\ UNCHANGED <<transport_vars, build_vars, thread_vars, expr_vars, scenario_vars>>

---------------------------------------------------------------------------
(* Python objects: a list or a dict is held by reference *)

\* a reference to the object heap[i]
Ref(i) == [t |-> "ref", v |-> i]

\* the value an object has for whoever reads or serialises it: every
\* reference followed
RECURSIVE Deref(_, _)
Deref(heap, x) ==
    CASE x.t = "ref"  -> Deref(heap, heap[x.v])
      [] x.t = "list" -> List([i \in 1..Len(x.v) |-> Deref(heap, x.v[i])])
      [] x.t = "dict" -> Dict([k \in DOMAIN x.v |-> Deref(heap, x.v[k])])
      [] OTHER        -> x

---------------------------------------------------------------------------
(* The constructors, with the objects they make and the ones they keep *)

\* Query.in_(field, values): {field: {"$in": values}}, two new dicts around
\* the caller's list
Query_in_alloc(heap, field, values) ==
    LET h1 == Append(heap, SingleKey("$in", values))
        h2 == Append(h1, SingleKey(field, Ref(Len(heap) + 1)))
    IN  [heap |-> h2, ref |-> Len(heap) + 2]

\* Query.and_(*conditions): {"$and": list(conditions)}, a new list of the
\* caller's condition dicts
Query_and_alloc(heap, conditions) ==
    LET h1 == Append(heap, List(conditions))
        h2 == Append(h1, SingleKey("$and", Ref(Len(heap) + 1)))
    IN  [heap |-> h2, ref |-> Len(heap) + 2]

\* Aggregation.match(filter): {"$match": filter}
Aggregation_match_alloc(heap, filter) ==
    [heap |-> Append(heap, SingleKey("$match", filter)), ref |-> Len(heap) + 1]

\* Aggregation.group(group_by, accumulators): stage = {"_id": group_by};
\* stage.update(accumulators) copies the entries; {"$group": stage}
Aggregation_group_alloc(heap, group_by, accumulators) ==
    LET stage == DictUpdate(SingleKey("_id", group_by), heap[accumulators.v])
        h1 == Append(heap, stage)
        h2 == Append(h1, SingleKey("$group", Ref(Len(heap) + 1)))
    IN  [heap |-> h2, ref |-> Len(heap) + 2]

\* the lists, conditions, filters and accumulator maps callers pass
InLists      == {<<>>, <<Num("1")>>, <<Num("1"), Num("2")>>}
Conditions   == {SomeFilter, SingleKey("city", SingleKey("$eq", Str("Prague")))}
MatchFilters == {EmptyDict, SomeFilter}
Accumulators == {EmptyDict, SingleKey("total", SingleKey("$sum", Num("1")))}

\* values.append(x) on a list, d["status"] = x on a dict
MutateObject(obj, x) ==
    IF obj.t = "list" THEN List(Append(obj.v, x)) ELSE DictSet(obj, "status", x)

\* values = [...]; expr = Query.in_("tags", values)
Build_in ==
    /\ bd_pc = "idle"
    /\ \E values \in InLists :
        LET built == Query_in_alloc(<<List(values)>>, "tags", Ref(1)) IN
        /\ bd_heap' = built.heap
        /\ bd_expr' = built.ref
        /\ bd_snapshot' = Deref(built.heap, Ref(built.ref))
    /\ bd_args' = {1}
    /\ bd_pc' = "built"
    /\ UNCHANGED <<bd_mutations, bd_later, transport_vars, combine_vars, thread_vars, expr_vars, scenario_vars>>

\* expr = Query.and_(c1, ..., ck)
Build_and ==
    /\ bd_pc = "idle"
    /\ \E conditions \in SeqsUpTo(Conditions, 2) :
        LET built == Query_and_alloc(conditions, [i \in 1..Len(conditions) |-> Ref(i)]) IN
        /\ bd_heap' = built.heap
        /\ bd_expr' = built.ref
        /\ bd_snapshot' = Deref(built.heap, Ref(built.ref))
        /\ bd_args' = 1..Len(conditions)
    /\ bd_pc' = "built"
    /\ UNCHANGED <<bd_mutations, bd_later, transport_vars, combine_vars, thread_vars, expr_vars, scenario_vars>>

\* stage = Aggregation.match(filter)
Build_match ==
    /\ bd_pc = "idle"
    /\ \E filter \in MatchFilters :
        LET built == Aggregation_match_alloc(<<filter>>, Ref(1)) IN
        /\ bd_heap' = built.heap
        /\ bd_expr' = built.ref
        /\ bd_snapshot' = Deref(built.heap, Ref(built.ref))
    /\ bd_args' = {1}
    /\ bd_pc' = "built"
    /\ UNCHANGED <<bd_mutations, bd_later, transport_vars, combine_vars, thread_vars, expr_vars, scenario_vars>>

\* stage = Aggregation.group("$city", accumulators)
Build_group ==
    /\ bd_pc = "idle"
    /\ \E accumulators \in Accumulators :
        LET built == Aggregation_group_alloc(<<accumulators>>, Str("$city"), Ref(1)) IN
        /\ bd_heap' = built.heap
        /\ bd_expr' = built.ref
        /\ bd_snapshot' = Deref(built.heap, Ref(built.ref))
    /\ bd_args' = {1}
    /\ bd_pc' = "built"
    /\ UNCHANGED <<bd_mutations, bd_later, transport_vars, combine_vars, thread_vars, expr_vars, scenario_vars>>

\* the caller changes an object it passed: appends to the list, sets a key
\* of the condition, the filter or the accumulator map
Build_mutate ==
    /\ bd_pc = "built"
    /\ bd_mutations < MaxMutations
    /\ \E r \in bd_args, x \in {Num("1"), Num("5")} :
        bd_heap' = [bd_heap EXCEPT ![r] = MutateObject(bd_heap[r], x)]
    /\ bd_mutations' = bd_mutations + 1
    /\ UNCHANGED <<bd_pc, bd_args, bd_expr, bd_snapshot, bd_later,
                   transport_vars, combine_vars, thread_vars, expr_vars, scenario_vars>>

\* a later builder call, on an argument of the first or on its expression
Build_later ==
    /\ bd_pc = "built"
    /\ bd_later < MaxLaterCalls
    /\ \E r \in bd_args \cup {bd_expr} :
        bd_heap' = Aggregation_match_alloc(bd_heap, Ref(r)).heap
    /\ bd_later' = bd_later + 1
    /\ UNCHANGED <<bd_pc, bd_args, bd_expr, bd_snapshot, bd_mutations,
                   transport_vars, combine_vars, thread_vars, expr_vars, scenario_vars>>

\* the expression is sent or dropped; the caller starts anew
Build_continue ==
    /\ bd_pc = "built"
    /\ bd_pc' = "idle"
    /\ bd_heap' = <<>>
    /\ bd_args' = {}
    /\ bd_expr' = 0
    /\ bd_snapshot' = None
    /\ bd_mutations' = 0
    /\ bd_later' = 0
    /\ UNCHANGED <<transport_vars, combine_vars, thread_vars, expr_vars, scenario_vars>>

---------------------------------------------------------------------------
(* UpdateBuilder.combine called by several threads on the same inputs *)

Threads == {"t1", "t2"}

\* the update documents the threads share
SharedUpdates ==
    { UpdateBuilder_set("a", Num("1")),
      UpdateBuilder_set("a", Num("2")),
      Dict([o \in {"$set", "$inc"} |-> SingleKey("b", Num("2"))]) }

\* the update document u laid out as objects: a dict per operator and the
\* document that refers to them
RECURSIVE AllocUpdate(_, _, _, _)
AllocUpdate(heap, u, todo, doc) ==
    IF todo = {} THEN [heap |-> Append(heap, doc), ref |-> Len(heap) + 1]
    ELSE LET o == CHOOSE o \in todo : TRUE IN
         AllocUpdate(Append(heap, u.v[o]), u, todo \ {o}, DictSet(doc, o, Ref(Len(heap) + 1)))

RECURSIVE AllocUpdates(_, _, _)
AllocUpdates(heap, refs, us) ==
    IF us = <<>> THEN [heap |-> heap, refs |-> refs]
    ELSE LET made == AllocUpdate(heap, Head(us), DOMAIN Head(us).v, EmptyDict) IN
         AllocUpdates(made.heap, Append(refs, made.ref), Tail(us))

\* result[operator] = fields: the input's own field map put into the result
Combine_make_alias(heap, res, operator, fields) ==
    [heap EXCEPT ![res] = [t |-> "dict", v |-> [j \in DOMAIN heap[res].v \cup {operator} |->
                              IF j = operator THEN fields ELSE heap[res].v[j]]]]

\* query.py:266: result[operator] = {}, a new dict
Combine_make(heap, res, operator, fields) ==
    LET h1 == Append(heap, EmptyDict) IN
    [h1 EXCEPT ![res] = DictSet(h1[res], operator, Ref(Len(heap) + 1))]

\* query.py:267: result[operator].update(fields)
Combine_update(heap, res, operator, fields) ==
    LET target == heap[res].v[operator].v IN
    [heap EXCEPT ![target] = DictUpdate(heap[target], heap[fields.v])]

\* update.items() of updates[i], none past the end
OperatorsAt(heap, updates, i) ==
    IF i <= Len(updates) THEN DOMAIN heap[updates[i]].v ELSE {}

\* the caller builds the update documents and starts the threads
Threads_start ==
    /\ \A t \in Threads : th_pc[t] = "idle"
    /\ \E us \in SeqsUpTo(SharedUpdates, MaxSharedUpdates) :
        LET made == AllocUpdates(<<>>, <<>>, us) IN
        /\ th_heap' = made.heap
        /\ th_initial' = made.heap
        /\ th_updates' = made.refs
    /\ th_pc' = [t \in Threads |-> "ready"]
    /\ UNCHANGED <<th_i, th_todo, th_operator, th_result,
                   transport_vars, combine_vars, build_vars, expr_vars, scenario_vars>>

\* thread t enters combine: result = {} and the first update taken up
Thread_call(t) ==
    /\ th_pc[t] = "ready"
    /\ th_heap' = Append(th_heap, EmptyDict)
    /\ th_result' = [th_result EXCEPT ![t] = Len(th_heap) + 1]
    /\ th_i' = [th_i EXCEPT ![t] = 1]
    /\ th_todo' = [th_todo EXCEPT ![t] = OperatorsAt(th_heap, th_updates, 1)]
    /\ th_pc' = [th_pc EXCEPT ![t] = "loop"]
    /\ UNCHANGED <<th_initial, th_updates, th_operator,
                   transport_vars, combine_vars, build_vars, expr_vars, scenario_vars>>

\* the inner loop takes the next (operator, fields) item
Thread_item(t) ==
    /\ th_pc[t] = "loop"
    /\ \E operator \in th_todo[t] :
        /\ th_operator' = [th_operator EXCEPT ![t] = operator]
        /\ th_todo' = [th_todo EXCEPT ![t] = th_todo[t] \ {operator}]
    /\ th_pc' = [th_pc EXCEPT ![t] = "test"]
    /\ UNCHANGED <<th_heap, th_initial, th_updates, th_i, th_result,
                   transport_vars, combine_vars, build_vars, expr_vars, scenario_vars>>

\* if operator not in result: result[operator] = {}
Thread_make(t) ==
    /\ th_pc[t] = "test"
    /\ th_heap' = IF th_operator[t] \in DOMAIN th_heap[th_result[t]].v THEN th_heap
                  ELSE Combine_make(th_heap, th_result[t], th_operator[t],
                                    th_heap[th_updates[th_i[t]]].v[th_operator[t]])
    /\ th_pc' = [th_pc EXCEPT ![t] = "update"]
    /\ UNCHANGED <<th_initial, th_updates, th_i, th_todo, th_operator, th_result,
                   transport_vars, combine_vars, build_vars, expr_vars, scenario_vars>>

\* result[operator].update(fields)
Thread_update(t) ==
    /\ th_pc[t] = "update"
    /\ th_heap' = Combine_update(th_heap, th_result[t], th_operator[t],
                                 th_heap[th_updates[th_i[t]]].v[th_operator[t]])
    /\ th_pc' = [th_pc EXCEPT ![t] = "loop"]
    /\ UNCHANGED <<th_initial, th_updates, th_i, th_todo, th_operator, th_result,
                   transport_vars, combine_vars, build_vars, expr_vars, scenario_vars>>

\* the outer loop goes on to the next update
Thread_next(t) ==
    /\ th_pc[t] = "loop"
    /\ th_todo[t] = {}
    /\ th_i[t] <= Len(th_updates)
    /\ th_i' = [th_i EXCEPT ![t] = th_i[t] + 1]
    /\ th_todo' = [th_todo EXCEPT ![t] = OperatorsAt(th_heap, th_updates, th_i[t] + 1)]
    /\ UNCHANGED <<th_pc, th_heap, th_initial, th_updates, th_operator, th_result,
                   transport_vars, combine_vars, build_vars, expr_vars, scenario_vars>>

\* return result
Thread_return(t) ==
    /\ th_pc[t] = "loop"
    /\ th_i[t] > Len(th_updates)
    /\ th_pc' = [th_pc EXCEPT ![t] = "done"]
    /\ UNCHANGED <<th_heap, th_initial, th_updates, th_i, th_todo, th_operator, th_result,
                   transport_vars, combine_vars, build_vars, expr_vars, scenario_vars>>

\* the threads are joined; nothing of the calls is kept
Threads_join ==
    /\ \A t \in Threads : th_pc[t] = "done"
    /\ th_pc' = [t \in Threads |-> "idle"]
    /\ th_heap' = <<>>
    /\ th_initial' = <<>>
    /\ th_updates' = <<>>
    /\ th_i' = [t \in Threads |-> 1]
    /\ th_todo' = [t \in Threads |-> {}]
    /\ th_operator' = [t \in Threads |-> ""]
    /\ th_result' = [t \in Threads |-> 0]
    /\ UNCHANGED <<transport_vars, combine_vars, build_vars, expr_vars, scenario_vars>>

---------------------------------------------------------------------------
(* The constructors as functions of their arguments *)

\* Aggregation.count(): {"$count": {}}
Aggregation_count == SingleKey("$count", EmptyDict)

\* an accumulator that writes a number out as text
Aggregation_accumulator_as_text(constructor, expression) ==
    LET kept == IF expression.t = "int" THEN [t |-> "str", v |-> expression.v]
                ELSE expression
    IN  [t |-> "dict", v |-> [j \in {CASE constructor = "sum"        -> "$sum"
                                       [] constructor = "avg"        -> "$avg"
                                       [] constructor = "min_"       -> "$min"
                                       [] constructor = "max_"       -> "$max"
                                       [] constructor = "push"       -> "$push"
                                       [] constructor = "add_to_set" -> "$addToSet"
                                       [] constructor = "first"      -> "$first"
                                       [] constructor = "last"       -> "$last"} |-> kept]]

\* Aggregation.sum, avg, min_, max_, push, add_to_set, first, last: each
\* returns {"$<operator>": expression}
Aggregation_accumulator(constructor, expression) ==
    CASE constructor = "sum"        -> SingleKey("$sum", expression)
      [] constructor = "avg"        -> SingleKey("$avg", expression)
      [] constructor = "min_"       -> SingleKey("$min", expression)
      [] constructor = "max_"       -> SingleKey("$max", expression)
      [] constructor = "push"       -> SingleKey("$push", expression)
      [] constructor = "add_to_set" -> SingleKey("$addToSet", expression)
      [] constructor = "first"      -> SingleKey("$first", expression)
      [] constructor = "last"       -> SingleKey("$last", expression)

AccumulatorNames == {"sum", "avg", "min_", "max_", "push", "add_to_set", "first", "last"}

\* operands of accumulators: literals, field references, and strings that
\* differ from them by the sigil only
AccumulatorOperands == {Num("1"), Str("1"), Str("$1"), Str("$amount"), Str("amount")}

\* a group stage that sets _id after the accumulators are copied in
Aggregation_group_id_last(group_by, accumulators) ==
    [t |-> "dict", v |-> [j \in {"$group"} |->
        [t |-> "dict", v |-> [k \in DOMAIN accumulators.v \cup {"_id"} |->
            IF k = "_id" THEN group_by ELSE accumulators.v[k]]]]]

\* Aggregation.group: stage = {"_id": group_by}; stage.update(accumulators);
\* return {"$group": stage}
Aggregation_group(group_by, accumulators) ==
    SingleKey("$group", DictUpdate(SingleKey("_id", group_by), accumulators))

\* group keys: a field reference and a compound key
GroupKeys == {Str("$city"),
              Dict2("city", Str("$city"), "year", Str("$year"))}

\* the accumulator calls a caller writes in the map it passes to group
AccumulatorCalls == {<<"count">>, <<"sum", Num("1")>>, <<"sum", Str("$amount")>>,
                     <<"avg", Str("$age")>>}

\* output keys of the accumulator map; nothing stops a caller from "_id"
OutputKeys == {"n", "total", "_id"}

\* the accumulator maps, as the calls that build their entries
Recipes == UNION {[ks -> AccumulatorCalls] : ks \in SUBSET OutputKeys}

\* the accumulator map a recipe evaluates to
Accumulate(recipe) ==
    Dict([k \in DOMAIN recipe |->
            IF recipe[k][1] = "count" THEN Aggregation_count
            ELSE Aggregation_accumulator(recipe[k][1], recipe[k][2])])

\* the recipe as a value: [constructor, operand] per output key
RecipeValue(recipe) ==
    Dict([k \in DOMAIN recipe |->
            List([i \in 1..Len(recipe[k]) |->
                    IF i = 1 THEN Str(recipe[k][1]) ELSE recipe[k][i]])])

\* a caller evaluates Aggregation.group(group_by, {k: Aggregation.<acc>(x), ...})
Group_call ==
    /\ ex_pc = "idle"
    /\ \E group_by \in GroupKeys, recipe \in Recipes :
        /\ ex_args' = Dict3("group_by", group_by, "accumulators", Accumulate(recipe),
                            "recipe", RecipeValue(recipe))
        /\ ex_value' = Aggregation_group(group_by, Accumulate(recipe))
    /\ ex_fn' = "group"
    /\ ex_pc' = "returned"
    /\ UNCHANGED <<transport_vars, combine_vars, build_vars, thread_vars, scenario_vars>>

\* a caller evaluates Aggregation.<constructor>(expression)
Accumulator_call ==
    /\ ex_pc = "idle"
    /\ \E constructor \in AccumulatorNames, expression \in AccumulatorOperands :
        /\ ex_fn' = constructor
        /\ ex_args' = SingleKey("expression", expression)
        /\ ex_value' = Aggregation_accumulator(constructor, expression)
    /\ ex_pc' = "returned"
    /\ UNCHANGED <<transport_vars, combine_vars, build_vars, thread_vars, scenario_vars>>

\* an and_ that passes each distinct run of conditions once
Query_and_merged(conditions) ==
    [t |-> "dict", v |-> [j \in {"$and"} |->
        [t |-> "list", v |-> MergeRepeats(conditions)]]]

\* Query.and_(*conditions): {"$and": list(conditions)}
Query_and(conditions) == SingleKey("$and", List(conditions))

\* Query.or_(*conditions): {"$or": list(conditions)}
Query_or(conditions) == SingleKey("$or", List(conditions))

\* the conditions callers combine
LogicalOperands == Conditions \cup {EmptyDict}

\* a caller evaluates Query.and_(c1, ..., ck) or Query.or_(c1, ..., ck)
Logical_call ==
    /\ ex_pc = "idle"
    /\ \E constructor \in {"and_", "or_"},
          conditions \in SeqsUpTo(LogicalOperands, MaxConditions) :
        /\ ex_fn' = constructor
        /\ ex_args' = SingleKey("conditions", List(conditions))
        /\ ex_value' = IF constructor = "and_" THEN Query_and(conditions)
                       ELSE Query_or(conditions)
    /\ ex_pc' = "returned"
    /\ UNCHANGED <<transport_vars, combine_vars, build_vars, thread_vars, scenario_vars>>

\* a gte that was copied from gt and kept its operator
Query_comparison_gte_as_gt(constructor, field, value) ==
    [t |-> "dict", v |-> [f \in {field} |->
        [t |-> "dict", v |-> [j \in {CASE constructor = "eq"  -> "$eq"
                                       [] constructor = "ne"  -> "$ne"
                                       [] constructor = "gt"  -> "$gt"
                                       [] constructor = "gte" -> "$gt"
                                       [] constructor = "lt"  -> "$lt"
                                       [] constructor = "lte" -> "$lte"} |-> value]]]]

\* Query.eq, ne, gt, gte, lt, lte: {field: {"$<operator>": value}}
Query_comparison(constructor, field, value) ==
    CASE constructor = "eq"  -> SingleKey(field, SingleKey("$eq", value))
      [] constructor = "ne"  -> SingleKey(field, SingleKey("$ne", value))
      [] constructor = "gt"  -> SingleKey(field, SingleKey("$gt", value))
      [] constructor = "gte" -> SingleKey(field, SingleKey("$gte", value))
      [] constructor = "lt"  -> SingleKey(field, SingleKey("$lt", value))
      [] constructor = "lte" -> SingleKey(field, SingleKey("$lte", value))

ComparisonNames == {"eq", "ne", "gt", "gte", "lt", "lte"}

\* field names, one of them with a dot and one that looks like an operator
ComparedFields == {"age", "address.city", "$eq"}

\* values of every JSON type
ComparedValues == {None, True, Num("18"), Str("Prague"), Str(""),
                   List(<<Num("1"), Num("2")>>), SomeFilter}

\* a caller evaluates Query.<constructor>(field, value)
Comparison_call ==
    /\ ex_pc = "idle"
    /\ \E constructor \in ComparisonNames, field \in ComparedFields,
          value \in ComparedValues :
        /\ ex_fn' = constructor
        /\ ex_args' = Dict2("field", Str(field), "value", value)
        /\ ex_value' = Query_comparison(constructor, field, value)
    /\ ex_pc' = "returned"
    /\ UNCHANGED <<transport_vars, combine_vars, build_vars, thread_vars, scenario_vars>>

\* a caller composes update documents a, b and c with combine in every way
Combine_compose_call ==
    /\ ex_pc = "idle"
    /\ \E a \in Updates, b \in Updates, c \in Updates :
        /\ ex_args' = Dict3("a", a, "b", b, "c", c)
        /\ ex_value' =
            Dict([e \in {"left", "right", "flat", "empty", "single", "twice"} |->
                CASE e = "left"   ->
                        UpdateBuilder_combine(<<UpdateBuilder_combine(<<a, b>>), c>>)
                  [] e = "right"  ->
                        UpdateBuilder_combine(<<a, UpdateBuilder_combine(<<b, c>>)>>)
                  [] e = "flat"   -> UpdateBuilder_combine(<<a, b, c>>)
                  [] e = "empty"  -> UpdateBuilder_combine(<<>>)
                  [] e = "single" -> UpdateBuilder_combine(<<a>>)
                  [] e = "twice"  -> UpdateBuilder_combine(<<a, a>>)])
    /\ ex_fn' = "combine"
    /\ ex_pc' = "returned"
    /\ UNCHANGED <<transport_vars, combine_vars, build_vars, thread_vars, scenario_vars>>

\* collection and index names, some of them with "/" in them
RouteNames == Names \cup {<<"users", "/", "indexes">>, <<"users", "/", "insert">>}
RouteIndexNames == {<<"age_idx">>, <<"a", "/", "b">>}

\* the operations with the names they are given: (operation, collection
\* name, index name), <<>> for a name the operation does not take
Routes ==
    {<<op, <<>>, <<>>>> : op \in {"ping", "stats", "list_collections"}}
    \cup {<<op, n, <<>>>> :
            op \in {"create_collection", "drop_collection", "insert_one", "insert_many",
                    "find_one", "find", "count", "update_one", "update_many",
                    "delete_one", "delete_many", "aggregate", "list_indexes",
                    "collection_stats"} \cup IndexKinds,
            n \in RouteNames}
    \cup {<<"drop_index", n, i>> : n \in RouteNames, i \in RouteIndexNames}

\* the request the operation makes for these names, its other arguments
\* as in the examples
RouteOf(op, n, i) ==
    CASE op = "ping"              -> Client_ping_request
      [] op = "stats"             -> Client_stats_request
      [] op = "list_collections"  -> Client_list_collections_request
      [] op = "create_collection" -> Client_create_collection_request(n)
      [] op = "drop_collection"   -> Client_drop_collection_request(n)
      [] op = "insert_one"        -> Collection_insert_one_request(n, SomeDocument)
      [] op = "insert_many"       -> Collection_insert_many_request(n, SomeDocuments)
      [] op = "find_one"          -> Collection_find_one_request(n, SomeFilter, None)
      [] op = "find"              ->
            Collection_find_request(n, SomeFilter, None, None, None, None)
      [] op = "count"             -> Collection_count_request(n, SomeFilter)
      [] op = "update_one"        -> Collection_update_one_request(n, SomeFilter, SomeUpdate)
      [] op = "update_many"       -> Collection_update_many_request(n, SomeFilter, SomeUpdate)
      [] op = "delete_one"        -> Collection_delete_one_request(n, SomeFilter)
      [] op = "delete_many"       -> Collection_delete_many_request(n, SomeFilter)
      [] op = "aggregate"         -> Collection_aggregate_request(n, <<>>)
      [] op = "list_indexes"      -> Collection_list_indexes_request(n)
      [] op = "collection_stats"  -> Collection_stats_request(n)
      [] op = "drop_index"        -> Collection_drop_index_request(n, i)
      [] op \in IndexKinds        -> CreateIndexRequest(op, n, None)

\* a name, a path or a URL as a value: the list of its parts
Parts(s) == List([k \in 1..Len(s) |-> Str(s[k])])

\* two operations are called, each with its names, and both requests reach
\* session.request
Route_call ==
    /\ ex_pc = "idle"
    /\ \E first \in Routes, second \in Routes :
        LET rq1 == RouteOf(first[1], first[2], first[3])
            rq2 == RouteOf(second[1], second[2], second[3])
        IN  /\ ex_args' = List(<<List(<<Str(first[1]), Parts(first[2]), Parts(first[3])>>),
                                 List(<<Str(second[1]), Parts(second[2]), Parts(second[3])>>)>>)
            /\ ex_value' = List(<<List(<<Str(rq1.method), Parts(Urljoin(base_url, rq1.path))>>),
                                  List(<<Str(rq2.method), Parts(Urljoin(base_url, rq2.path))>>)>>)
    /\ ex_fn' = "route"
    /\ ex_pc' = "returned"
    /\ UNCHANGED <<transport_vars, combine_vars, build_vars, thread_vars, scenario_vars>>

\* a config builder that leaves a name out only when none was passed
Index_create_config_name_unless_none(kind, a) ==
    LET config ==
            CASE kind = "create_index" ->
                    Dict3("field", a.v["field"], "unique", a.v["unique"],
                          "sparse", a.v["sparse"])
              [] kind = "create_compound_index" ->
                    Dict2("fields", a.v["fields"], "unique", a.v["unique"])
              [] kind = "create_text_index" -> SingleKey("fields", a.v["fields"])
              [] kind = "create_geo_index" ->
                    Dict2("field", a.v["field"], "geoType", a.v["geo_type"])
              [] kind = "create_ttl_index" ->
                    Dict2("field", a.v["field"],
                          "expireAfterSeconds", a.v["expire_after_seconds"])
              [] kind = "create_partial_index" ->
                    Dict3("field", a.v["field"], "filterExpression", a.v["filter_expr"],
                          "unique", a.v["unique"])
    IN  IF a.v["name"].t # "NoneType"
        THEN [t |-> "dict", v |-> [j \in DOMAIN config.v \cup {"name"} |->
                                      IF j = "name" THEN a.v["name"] ELSE config.v[j]]]
        ELSE config

\* Index.create_btree_config, create_compound_config, create_text_config,
\* create_geo_config, create_ttl_config, create_partial_config, named here
\* by the Collection operation each one goes with; a holds the arguments
\* by parameter name
Index_create_config(kind, a) ==
    LET config ==
            CASE kind = "create_index" ->
                    Dict3("field", a.v["field"], "unique", a.v["unique"],
                          "sparse", a.v["sparse"])
              [] kind = "create_compound_index" ->
                    Dict2("fields", a.v["fields"], "unique", a.v["unique"])
              [] kind = "create_text_index" -> SingleKey("fields", a.v["fields"])
              [] kind = "create_geo_index" ->
                    Dict2("field", a.v["field"], "geoType", a.v["geo_type"])
              [] kind = "create_ttl_index" ->
                    Dict2("field", a.v["field"],
                          "expireAfterSeconds", a.v["expire_after_seconds"])
              [] kind = "create_partial_index" ->
                    Dict3("field", a.v["field"], "filterExpression", a.v["filter_expr"],
                          "unique", a.v["unique"])
        named == IF Truthy(a.v["name"]) THEN DictSet(config, "name", a.v["name"])
                 ELSE config
    IN  IF kind = "create_text_index" /\ Truthy(a.v["weights"])
        THEN DictSet(named, "weights", a.v["weights"])
        ELSE named

\* the arguments a caller gives to a config builder and to the operation
\* of Collection alike; one left out has its default (False, "2d", None)
IndexArguments ==
    {Dict([p \in {"field", "fields", "unique", "sparse", "geo_type",
                  "expire_after_seconds", "filter_expr", "name", "weights"} |->
            CASE p = "field"                -> Str("email")
              [] p = "fields"               -> List(<<Str("city"), Str("age")>>)
              [] p = "unique"               -> unique
              [] p = "sparse"               -> sparse
              [] p = "geo_type"             -> geo_type
              [] p = "expire_after_seconds" -> Num("10")
              [] p = "filter_expr"          -> SomeFilter
              [] p = "name"                 -> name
              [] p = "weights"              -> weights]) :
        unique \in {True, False}, sparse \in {True, False},
        geo_type \in {Str("2d"), Str("2dsphere")}, name \in IndexNameArgs,
        weights \in {None, EmptyDict}}

\* a caller evaluates Index.create_<kind>_config(...)
Config_call ==
    /\ ex_pc = "idle"
    /\ \E kind \in IndexKinds, a \in IndexArguments :
        /\ ex_fn' = kind
        /\ ex_args' = a
        /\ ex_value' = Index_create_config(kind, a)
    /\ ex_pc' = "returned"
    /\ UNCHANGED <<transport_vars, combine_vars, build_vars, thread_vars, scenario_vars>>

\* the caller has the value; nothing of the call is kept
Expr_continue ==
    /\ ex_pc = "returned"
    /\ ex_pc' = "idle"
    /\ ex_fn' = ""
    /\ ex_args' = None
    /\ ex_value' = None
    /\ UNCHANGED <<transport_vars, combine_vars, build_vars, thread_vars, scenario_vars>>

---------------------------------------------------------------------------
(* A server that obeys the wire contract, and calls made against it *)

\* the collection the calls go to
ScenarioName == <<"users">>

\* the ages of the fixture
Ages == {Num("25"), Num("30"), Num("35")}

AgeAtLeast30 == SingleKey("age", SingleKey("$gte", Num("30")))

\* the server's filter: {} selects every document, {"age": {"$gte": n}}
\* those whose age is at least n
Matches(document, filter) ==
    IF DOMAIN filter.v = {} THEN TRUE
    ELSE IntOf(document.v["age"].v) >= IntOf(filter.v["age"].v["$gte"].v)

\* the documents that match the filter (wanted) or do not (not wanted), in order
RECURSIVE Select(_, _, _)
Select(documents, filter, wanted) ==
    IF documents = <<>> THEN <<>>
    ELSE LET rest == Select(Tail(documents), filter, wanted) IN
         IF Matches(Head(documents), filter) = wanted
         THEN <<Head(documents)>> \o rest ELSE rest

\* {"ok": true, "result": result}
OkEnvelope(res) == Dict2("ok", True, "result", res)

\* the server: what a request does to the collection and the reply it gets,
\* per row of the wire contract
Server_handle(documents, method, path, body) ==
    LET capability == path[Len(path)] IN
    CASE method = "POST" /\ capability = "insert" ->
            [docs  |-> Append(documents, body.v["document"]),
             reply |-> Response(200, OkEnvelope(SingleKey("id", Str("1"))))]
      [] method = "POST" /\ capability = "insert-many" ->
            [docs  |-> documents \o body.v["documents"].v,
             reply |-> Response(200, OkEnvelope(SingleKey("ids",
                         List([i \in 1..Len(body.v["documents"].v) |-> Str("1")]))))]
      [] method = "POST" /\ capability = "count" ->
            [docs  |-> documents,
             reply |-> Response(200, OkEnvelope(SingleKey("count",
                         Num(Numeral(Len(Select(documents, body.v["filter"], TRUE)))))))]
      [] method = "POST" /\ capability = "delete-many" ->
            [docs  |-> Select(documents, body.v["filter"], FALSE),
             reply |-> Response(200, OkEnvelope(SingleKey("deleted",
                         Num(Numeral(Len(Select(documents, body.v["filter"], TRUE)))))))]
      [] OTHER ->
            [docs  |-> documents, reply |-> Response(404, NotJson)]

\* the calls the scenario observes, one after the other
ScenarioSteps == <<"count", "delete_many", "count">>

\* the calls that are kept for inspection: the latest ones, as many as the
\* scenario has steps
Latest(log) == IF Len(log) > Len(ScenarioSteps) THEN Tail(log) ELSE log

\* the lists of documents passed to insert_many
Fixtures == {<<SingleKey("age", Num("30")), SingleKey("age", Num("25")),
               SingleKey("age", Num("35"))>>,
             <<SingleKey("age", Num("35"))>>}

\* collection.insert_one({"age": age})
Scenario_insert_one ==
    /\ Len(sv_docs) < MaxDocuments
    /\ \E age \in Ages :
        LET rq == Collection_insert_one_request(ScenarioName, SingleKey("age", age))
            served == Server_handle(sv_docs, rq.method, rq.path, rq.body)
            o == Client_request(served.reply, Urljoin(base_url, rq.path), requests_version)
        IN  /\ sv_docs' = served.docs
            /\ sc_log' = Latest(Append(sc_log,
                    [op |-> "insert_one", arg |-> age, docs |-> sv_docs,
                     returned |-> FacadeResult("insert_one", o)]))
    /\ UNCHANGED <<transport_vars, combine_vars, build_vars, thread_vars, expr_vars>>

\* collection.insert_many(documents)
Scenario_insert_many ==
    /\ \E documents \in Fixtures :
        /\ Len(sv_docs) + Len(documents) <= MaxDocuments
        /\ LET rq == Collection_insert_many_request(ScenarioName, List(documents))
               served == Server_handle(sv_docs, rq.method, rq.path, rq.body)
               o == Client_request(served.reply, Urljoin(base_url, rq.path), requests_version)
           IN  /\ sv_docs' = served.docs
               /\ sc_log' = Latest(Append(sc_log,
                       [op |-> "insert_many", arg |-> List(documents), docs |-> sv_docs,
                        returned |-> FacadeResult("insert_many", o)]))
    /\ UNCHANGED <<transport_vars, combine_vars, build_vars, thread_vars, expr_vars>>

\* collection.count() and collection.count(filter)
Scenario_count ==
    /\ \E filter \in {None, AgeAtLeast30} :
        LET rq == Collection_count_request(ScenarioName, filter)
            served == Server_handle(sv_docs, rq.method, rq.path, rq.body)
            o == Client_request(served.reply, Urljoin(base_url, rq.path), requests_version)
        IN  /\ sv_docs' = served.docs
            /\ sc_log' = Latest(Append(sc_log,
                    [op |-> "count", arg |-> filter, docs |-> sv_docs,
                     returned |-> FacadeResult("count", o)]))
    /\ UNCHANGED <<transport_vars, combine_vars, build_vars, thread_vars, expr_vars>>

\* collection.delete_many(filter)
Scenario_delete_many ==
    /\ \E filter \in {EmptyDict, AgeAtLeast30} :
        LET rq == Collection_delete_many_request(ScenarioName, filter)
            served == Server_handle(sv_docs, rq.method, rq.path, rq.body)
            o == Client_request(served.reply, Urljoin(base_url, rq.path), requests_version)
        IN  /\ sv_docs' = served.docs
            /\ sc_log' = Latest(Append(sc_log,
                    [op |-> "delete_many", arg |-> filter, docs |-> sv_docs,
                     returned |-> FacadeResult("delete_many", o)]))
    /\ UNCHANGED <<transport_vars, combine_vars, build_vars, thread_vars, expr_vars>>

\* the fixture is torn down: an empty collection and a new test
Scenario_reset ==
    /\ sc_log # <<>>
    /\ sv_docs' = <<>>
    /\ sc_log' = <<>>
    /\ UNCHANGED <<transport_vars, combine_vars, build_vars, thread_vars, expr_vars>>

---------------------------------------------------------------------------
(* Specifications *)

Init ==
    /\ requests_version \in SupportedRequests
    /\ pc = "idle"
    /\ call = NoCall
    /\ attempts = 0
    /\ wire = NoWire
    /\ reply = NoReply
    /\ outcome = NoOutcome
    /\ result = NoOutcome
    /\ cb_pc = "idle"
    /\ cb_updates = <<>>
    /\ cb_i = 1
    /\ cb_todo = {}
    /\ cb_result = EmptyDict
    /\ bd_pc = "idle"
    /\ bd_heap = <<>>
    /\ bd_args = {}
    /\ bd_expr = 0
    /\ bd_snapshot = None
    /\ bd_mutations = 0
    /\ bd_later = 0
    /\ th_pc = [t \in Threads |-> "idle"]
    /\ th_heap = <<>>
    /\ th_initial = <<>>
    /\ th_updates = <<>>
    /\ th_i = [t \in Threads |-> 1]
    /\ th_todo = [t \in Threads |-> {}]
    /\ th_operator = [t \in Threads |-> ""]
    /\ th_result = [t \in Threads |-> 0]
    /\ ex_pc = "idle"
    /\ ex_fn = ""
    /\ ex_args = None
    /\ ex_value = None
    /\ sv_docs = <<>>
    /\ sc_log = <<>>

Next ==
    \/ Request_call
    \/ Aggregate_call
    \/ Session_request
    \/ Request_finish
    \/ Caller_continue

\* calls through the client and the facade
Spec == Init /\ [][Next]_vars

NextFacade ==
    \/ Aggregate_call
    \/ Insert_one_call
    \/ Insert_many_call
    \/ Find_one_call
    \/ Find_call
    \/ Find_not_call
    \/ Find_compare_call
    \/ Count_call
    \/ Update_call
    \/ Delete_call
    \/ Create_index_call
    \/ Collection_read_call
    \/ Drop_index_call
    \/ Ping_call
    \/ Client_read_call
    \/ Client_collection_call
    \/ Session_request
    \/ Request_finish
    \/ Caller_continue

\* calls of the operations of Collection and Client
SpecFacade == Init /\ [][NextFacade]_vars

NextCombine ==
    \/ Combine_call
    \/ Combine_item
    \/ Combine_next
    \/ Combine_return
    \/ Combine_continue

\* calls of UpdateBuilder.combine
SpecCombine == Init /\ [][NextCombine]_vars

NextBuild ==
    \/ Build_in
    \/ Build_and
    \/ Build_match
    \/ Build_group
    \/ Build_mutate
    \/ Build_later
    \/ Build_continue

\* expressions built and the caller's objects changed afterwards
SpecBuild == Init /\ [][NextBuild]_vars

NextThreads ==
    \/ Threads_start
    \/ \E t \in Threads : Thread_call(t)
    \/ \E t \in Threads : Thread_item(t)
    \/ \E t \in Threads : Thread_make(t)
    \/ \E t \in Threads : Thread_update(t)
    \/ \E t \in Threads : Thread_next(t)
    \/ \E t \in Threads : Thread_return(t)
    \/ Threads_join

\* combine called by two threads at once
SpecThreads == Init /\ [][NextThreads]_vars

NextExpr ==
    \/ Group_call
    \/ Accumulator_call
    \/ Logical_call
    \/ Comparison_call
    \/ Combine_compose_call
    \/ Route_call
    \/ Config_call
    \/ Expr_continue

\* constructors of Query, Aggregation and Index called on their own
SpecExpr == Init /\ [][NextExpr]_vars

---------------------------------------------------------------------------
NextScenario ==
    \/ Scenario_insert_one
    \/ Scenario_insert_many
    \/ Scenario_count
    \/ Scenario_delete_many
    \/ Scenario_reset

\* calls of one collection's operations against a server that keeps the
\* wire contract
SpecScenario == Init /\ [][NextScenario]_vars

---------------------------------------------------------------------------
---------------------------------------------------------------------------
(* Properties of Client._request *)

\* _request has ended and this is the reply it worked on
Ended == pc = "done"

\* the reply is a response whose status raise_for_status lets through
SuccessStatus == reply.kind = "response" /\ ~(400 <= reply.status /\ reply.status < 600)

\* the reply is a response with an error status
ErrorStatus == reply.kind = "response" /\ 400 <= reply.status /\ reply.status < 600

ObjectBody == reply.content.t = "dict"

Has(d, k) == k \in DOMAIN d.v
NonEmpty(d, k) == Has(d, k) /\ d.v[k].t = "str" /\ d.v[k].v # ""

RaisedType(o, type) == Raised(o) /\ o.exc.type = type

\* a Transport error is a RuntimeError, an API error is a ValueError
TransportError(o) == RaisedType(o, "RuntimeError")
ApiError(o)       == Raised(o) /\ IsInstance(o.exc, "ValueError")

\* the message the API error is to carry for the body d
MessageOf(d) ==
    IF NonEmpty(d, "message") THEN d.v["message"].v
    ELSE IF NonEmpty(d, "error") THEN d.v["error"].v
    ELSE "API request failed"

\* C1: a success-status reply with a JSON-object body whose ok is false or
\* absent ends _request with a ValueError and never returns the body; the
\* error's text is taken from the body's message (when it has a non-empty
\* one), else from its error, else it is 'API request failed'.  With ok true
\* the body is returned.
C1_ApiErrorFromBody ==
    (Ended /\ SuccessStatus /\ ObjectBody) =>
        /\ (Has(reply.content, "ok") /\ reply.content.v["ok"] = True)
              => outcome = Return(reply.content)
        /\ (~Has(reply.content, "ok") \/ reply.content.v["ok"] = False)
              => /\ RaisedType(outcome, "ValueError")
                 /\ outcome.exc.msg = <<"LauraDB API error: ", MessageOf(reply.content)>>

\* C1: ok is false, there is no message, and the error field supplied the text
C1_Witness ==
    /\ Ended /\ SuccessStatus /\ ObjectBody
    /\ Has(reply.content, "ok") /\ reply.content.v["ok"] = False
    /\ ~Has(reply.content, "message")
    /\ NonEmpty(reply.content, "error")
    /\ RaisedType(outcome, "ValueError")
    /\ outcome.exc.msg = <<"LauraDB API error: ", reply.content.v["error"].v>>

C4_SingleAttempt ==
    /\ attempts <= 1
    /\ pc \in {"replied", "done"} => attempts = 1

\* C4: a POST failed on the network and the call ended after its one attempt
C4_Witness ==
    /\ Ended /\ reply \in NetworkFailures
    /\ call.method = "POST"
    /\ Raised(outcome)
    /\ attempts = 1

\* C5: every call of _request ends in one of three ways: it returns the
\* parsed body, raises a RuntimeError, or raises a ValueError.
C5_ThreeOutcomes ==
    Ended =>
        \/ outcome = Return(reply.content)
        \/ TransportError(outcome)
        \/ ApiError(outcome)

\* C6: a success-status reply whose body is not JSON ends _request with a
\* RuntimeError, under every supported version of the HTTP library.
C6_ParseFailureIsTransport ==
    (Ended /\ SuccessStatus /\ reply.content = NotJson) =>
        /\ TransportError(outcome)
        /\ ~ApiError(outcome)

\* the reply is a success-status {"ok": false, "message": m} with m non-empty
RejectedWithMessage ==
    /\ SuccessStatus /\ ObjectBody
    /\ Has(reply.content, "ok") /\ reply.content.v["ok"] = False
    /\ NonEmpty(reply.content, "message")

\* C7 as claimed: the API error's message string equals m.
C7_MessageEqualsM ==
    (Ended /\ RejectedWithMessage) =>
        /\ ApiError(outcome)
        /\ outcome.exc.msg = <<reply.content.v["message"].v>>

\* C7 as amended: the API error's message string is 'LauraDB API error: '
\* followed by m, unchanged.
C7_MessagePrefixedM ==
    (Ended /\ RejectedWithMessage) =>
        /\ RaisedType(outcome, "ValueError")
        /\ outcome.exc.msg = <<"LauraDB API error: ">> \o <<reply.content.v["message"].v>>

\* C7: {"ok": false, "message": "duplicate key"} with an error field beside it
C7_Witness ==
    /\ Ended /\ RejectedWithMessage
    /\ reply.content.v["message"] = Str("duplicate key")
    /\ Has(reply.content, "error")
    /\ outcome.exc.msg = <<"LauraDB API error: ", "duplicate key">>

---------------------------------------------------------------------------
(* Properties of UpdateBuilder.combine *)

Returned_combine == cb_pc = "done"

\* the inputs that set field f under operator o
Setters(o, f) ==
    {i \in 1..Len(cb_updates) : Has(cb_updates[i], o) /\ Has(cb_updates[i].v[o], f)}

Last(S) == CHOOSE i \in S : \A j \in S : j <= i

AllOperators == UNION {DOMAIN u.v : u \in Updates}

UnderOperator(d, o, f) == Has(d, o) /\ Has(d.v[o], f)

\* C8: the operators of the combined document are the union of the inputs'
\* operators; under each operator its fields are those any input set there,
\* each with the value of the last input that set it.
C8_LeftToRightMerge ==
    Returned_combine =>
        /\ DOMAIN cb_result.v = UNION {DOMAIN cb_updates[i].v : i \in 1..Len(cb_updates)}
        /\ \A o \in DOMAIN cb_result.v :
            /\ DOMAIN cb_result.v[o].v = {f \in Fields : Setters(o, f) # {}}
            /\ \A f \in DOMAIN cb_result.v[o].v :
                 cb_result.v[o].v[f] = cb_updates[Last(Setters(o, f))].v[o].v[f]

\* C8: two inputs set the same field under the same operator to different
\* values, a third operator came from another input, and the later value won
C8_Witness ==
    /\ Returned_combine
    /\ \E o \in DOMAIN cb_result.v, f \in Fields :
        /\ Cardinality(Setters(o, f)) >= 2
        /\ \E i \in Setters(o, f) :
              cb_updates[i].v[o].v[f] # cb_updates[Last(Setters(o, f))].v[o].v[f]
        /\ cb_result.v[o].v[f] = cb_updates[Last(Setters(o, f))].v[o].v[f]
    /\ Cardinality(DOMAIN cb_result.v) >= 2

BuiltInputs == \A i \in 1..Len(cb_updates) : cb_updates[i] \in BuiltUpdates

\* C9 as claimed: no field of the combined document stands under two operators.
C9_NoFieldUnderTwoOperators ==
    (Returned_combine /\ BuiltInputs) =>
        \A o1, o2 \in DOMAIN cb_result.v :
            o1 # o2 => DOMAIN cb_result.v[o1].v \cap DOMAIN cb_result.v[o2].v = {}

\* C9 as amended: combine merges per operator only; a field stands under two
\* operators of the combined document exactly when inputs put it under both.
C9_ConflictsPassThrough ==
    (Returned_combine /\ BuiltInputs) =>
        \A o1, o2 \in AllOperators : \A f \in Fields :
            o1 # o2 =>
                ((UnderOperator(cb_result, o1, f) /\ UnderOperator(cb_result, o2, f))
                   <=> (Setters(o1, f) # {} /\ Setters(o2, f) # {}))

\* C9: set(a, 1) and unset(a) combined: a stands under $set and under $unset
C9_Witness ==
    /\ Returned_combine /\ BuiltInputs
    /\ cb_updates = <<UpdateBuilder_set("a", Num("1")), UpdateBuilder_unset("a")>>
    /\ UnderOperator(cb_result, "$set", "a")
    /\ UnderOperator(cb_result, "$unset", "a")

---------------------------------------------------------------------------
(* Properties of Collection.aggregate *)

\* C10: the body aggregate sends holds the caller's pipeline: same length,
\* same stages, same order.
C10_PipelineUnchanged ==
    (call.op = "aggregate" /\ pc \in {"replied", "done"}) =>
        /\ DOMAIN wire.json.v = {"pipeline"}
        /\ wire.json.v["pipeline"].t = "list"
        /\ Len(wire.json.v["pipeline"].v) = Len(call.arg.v["pipeline"].v)
        /\ \A i \in 1..Len(call.arg.v["pipeline"].v) :
              wire.json.v["pipeline"].v[i] = call.arg.v["pipeline"].v[i]

\* C10: a three-stage pipeline with a repeated stage went over the wire
C10_Witness ==
    /\ call.op = "aggregate" /\ pc = "done"
    /\ Len(call.arg.v["pipeline"].v) = 3
    /\ call.arg.v["pipeline"].v[1] = call.arg.v["pipeline"].v[2]
    /\ call.arg.v["pipeline"].v[2] # call.arg.v["pipeline"].v[3]
    /\ Len(wire.json.v["pipeline"].v) = 3

---------------------------------------------------------------------------
(* Properties of the request bodies of find and find_one *)

\* the request of the call is on the wire
Sent == pc \in {"replied", "done"}

\* the caller left the option k out
Omitted(k) == call.arg.v[k] = None

\* the body on the wire has the option k exactly when the caller gave it,
\* and then with the caller's value
PresentIffGiven(k) ==
    /\ Omitted(k) => ~Has(wire.json, k)
    /\ ~Omitted(k) => (Has(wire.json, k) /\ wire.json.v[k] = call.arg.v[k])

\* C11: the body find sends has skip (limit) exactly when the caller gave
\* it, with the caller's value, 0 included; without them the body has
\* neither key.
C11_SkipLimitIffSupplied ==
    (Sent /\ call.op = "find" /\ Has(call.arg, "skip")) =>
        /\ PresentIffGiven("skip")
        /\ PresentIffGiven("limit")

\* C11: skip=0 was given and limit was not: the body has skip 0 and no limit
C11_Witness ==
    /\ Sent /\ call.op = "find" /\ Has(call.arg, "skip")
    /\ call.arg.v["skip"] = Num("0") /\ Omitted("limit")
    /\ Has(wire.json, "skip") /\ wire.json.v["skip"] = Num("0")
    /\ ~Has(wire.json, "limit")

\* C12: in find and find_one the body has projection (sort) exactly when the
\* caller gave it, with the caller's value, the empty mapping included.
C12_OptionsIffProvided ==
    (Sent /\ call.op \in {"find", "find_one"} /\ Has(call.arg, "projection")) =>
        \A k \in {"projection", "sort"} \cap DOMAIN call.arg.v : PresentIffGiven(k)

---------------------------------------------------------------------------
(* Properties of the facade operations *)

\* the operations that unwrap a field of result, the field, and the value
\* they are to return when it is missing
UnwrapOps == {"insert_one", "insert_many", "find_one", "find", "count", "update_one",
              "update_many", "delete_one", "delete_many", "aggregate", "list_indexes"}

ExpectedField(op) ==
    CASE op = "insert_one"   -> "id"
      [] op = "insert_many"  -> "ids"
      [] op = "find_one"     -> "document"
      [] op \in {"find", "aggregate"}          -> "documents"
      [] op = "count"        -> "count"
      [] op \in {"update_one", "update_many"}  -> "modified"
      [] op \in {"delete_one", "delete_many"}  -> "deleted"
      [] op = "list_indexes" -> "indexes"

EmptyDefault(op) ==
    CASE op = "insert_one"   -> Str("")
      [] op \in {"insert_many", "find", "aggregate", "list_indexes"} -> List(<<>>)
      [] op = "find_one"     -> None
      [] op \in {"count", "update_many", "delete_many"} -> Num("0")
      [] op \in {"update_one", "delete_one"}            -> False

\* _request returned a body whose result is absent, or is an object without
\* the field the operation looks for
FieldMissing ==
    /\ Ended /\ Returned(outcome) /\ call.op \in UnwrapOps
    /\ \/ ~Has(outcome.value, "result")
       \/ /\ outcome.value.v["result"].t = "dict"
          /\ ~Has(outcome.value.v["result"], ExpectedField(call.op))

C14_ErrorsPropagate ==
    (Ended /\ call.op # "ping" /\ Raised(outcome)) =>
        /\ result = outcome
        /\ ~Returned(result)

\* C14: count ended with the ValueError _request raised for the server's message
C14_Witness ==
    /\ Ended /\ call.op = "count"
    /\ ApiError(outcome) /\ NonEmpty(reply.content, "message")
    /\ result = outcome

\* C15: ping raises nothing and returns True or False: True only when
\* _request returned, False whenever it raised.
C15_PingReturnsBoolean ==
    (Ended /\ call.op = "ping") =>
        /\ result \in {Return(True), Return(False)}
        /\ Raised(outcome) => result = Return(False)
        /\ result = Return(True) => Returned(outcome)

\* the collection name and the index name of the call, as path parts
NameOf(c)  == <<c.arg.v["name"].v>>
IndexOf(c) == <<c.arg.v["index"].v>>

\* the wire table: the method of an operation and what its path adds to
\* /collections/n
WireMethod(op) ==
    CASE op = "list_indexes" -> "GET"
      [] op = "drop_index"   -> "DELETE"
      [] OTHER               -> "POST"

WireSuffix(op, i) ==
    CASE op = "insert_one"   -> <<"/", "insert">>
      [] op = "insert_many"  -> <<"/", "insert-many">>
      [] op = "find"         -> <<"/", "find">>
      [] op = "find_one"     -> <<"/", "find-one">>
      [] op = "count"        -> <<"/", "count">>
      [] op = "update_one"   -> <<"/", "update-one">>
      [] op = "update_many"  -> <<"/", "update-many">>
      [] op = "delete_one"   -> <<"/", "delete-one">>
      [] op = "delete_many"  -> <<"/", "delete-many">>
      [] op = "aggregate"    -> <<"/", "aggregate">>
      [] op = "list_indexes" -> <<"/", "indexes">>
      [] op = "drop_index"   -> <<"/", "indexes", "/">> \o i

TableOps == UnwrapOps \cup {"drop_index"}

\* C16: an operation of the wire table on collection n puts one request on
\* the wire, with the table's method and the path /collections/n + suffix.
C16_FixedMethodAndPath ==
    (Sent /\ call.op \in TableOps) =>
        /\ attempts = 1
        /\ wire.method = WireMethod(call.op)
        /\ wire.url = base_url \o <<"/", "collections", "/">> \o NameOf(call)
                        \o WireSuffix(call.op,
                                      IF call.op = "drop_index" THEN IndexOf(call) ELSE <<>>)

\* C16: drop_index("users") on the collection orders
C16_Witness ==
    /\ Ended /\ call.op = "drop_index"
    /\ NameOf(call) = <<"orders">> /\ IndexOf(call) = <<"users">>
    /\ wire.method = "DELETE"
    /\ wire.url = base_url \o <<"/", "collections", "/", "orders", "/", "indexes", "/", "users">>

---------------------------------------------------------------------------
(* Properties of the Query constructors *)

\* the call is find(Query.not_(*operands)) with no operand or several
WrongArity ==
    /\ call.op = "find" /\ Has(call.arg, "operands")
    /\ Len(call.arg.v["operands"].v) # 1

\* C17: Query.not_ with no operand or with several raises at the call, a
\* TypeError that is neither a RuntimeError nor a ValueError, and nothing
\* is put on the wire.
C17_NotArityFailsLocally ==
    WrongArity =>
        /\ pc = "raised"
        /\ RaisedType(result, "TypeError")
        /\ ~TransportError(result) /\ ~ApiError(result)
        /\ attempts = 0 /\ wire = NoWire /\ reply = NoReply

\* C17: not_ was given two operands
C17_Witness ==
    /\ WrongArity /\ Len(call.arg.v["operands"].v) = 2
    /\ pc = "raised"
    /\ RaisedType(result, "TypeError")
    /\ attempts = 0

\* the operand's type does not fit the constructor: in_, nin and all_ take a
\* sequence, size takes an integer
Incompatible(constructor, operand) ==
    IF constructor = "size" THEN operand.t # "int"
    ELSE operand.t \notin {"list", "str"}

\* C18: in_, nin, all_ and size given an operand of the wrong type raise and
\* return no expression, so no find is sent with one.
C18_WrongOperandRejected ==
    (call.op = "find" /\ Has(call.arg, "constructor")
       /\ Incompatible(call.arg.v["constructor"].v, call.arg.v["operand"])) =>
        /\ pc = "raised"
        /\ Raised(result)

\* C19: an expression a constructor returned keeps the value it had when it
\* was returned, whatever the caller does to the arguments afterwards and
\* whatever builder calls follow.
C19_BuiltExpressionUnchanged ==
    bd_pc = "built" => Deref(bd_heap, Ref(bd_expr)) = bd_snapshot

---------------------------------------------------------------------------
(* Properties of UpdateBuilder.combine under threads *)

\* the operators of u merged into res one after the other
RECURSIVE CombineItems(_, _, _)
CombineItems(res, u, todo) ==
    IF todo = {} THEN res
    ELSE LET o == CHOOSE o \in todo : TRUE IN
         CombineItems(CombineItem(res, o, u.v[o]), u, todo \ {o})

\* what one call of combine returns when nothing else runs
RECURSIVE SequentialCombine(_, _)
SequentialCombine(res, us) ==
    IF us = <<>> THEN res
    ELSE SequentialCombine(CombineItems(res, Head(us), DOMAIN Head(us).v), Tail(us))

\* the input documents as values, as they were when the threads started
InitialInputs == [i \in 1..Len(th_updates) |-> Deref(th_initial, Ref(th_updates[i]))]

\* C20: while threads run combine on shared inputs, every input object (the
\* documents and their per-operator field maps) stays what it was, and each
\* thread that has returned holds what a sequential call returns.
C20_CombineThreadSafe ==
    /\ SubSeq(th_heap, 1, Len(th_initial)) = th_initial
    /\ \A t \in Threads :
         th_pc[t] = "done" =>
            Deref(th_heap, Ref(th_result[t])) = SequentialCombine(EmptyDict, InitialInputs)

\* C20: two inputs with the same operator, both threads have returned, and
\* the second thread made its result between the first one's result and the
\* first one's field map: the calls overlapped
C20_Witness ==
    /\ \A t \in Threads : th_pc[t] = "done"
    /\ Len(th_updates) = 2
    /\ \E o \in DOMAIN th_heap[th_updates[1]].v : o \in DOMAIN th_heap[th_updates[2]].v
    /\ InitialInputs[1] # InitialInputs[2]
    /\ th_result["t1"] < th_result["t2"]
    /\ \E o \in DOMAIN th_heap[th_result["t1"]].v :
          th_result["t2"] < th_heap[th_result["t1"]].v[o].v
    /\ Deref(th_heap, Ref(th_result["t1"])) = Deref(th_heap, Ref(th_result["t2"]))
    /\ SubSeq(th_heap, 1, Len(th_initial)) = th_initial

---------------------------------------------------------------------------
(* Properties of the Aggregation constructors *)

\* the call Aggregation.group has returned
GroupReturned == ex_pc = "returned" /\ ex_fn = "group"

\* the stage S of the {"$group": S} that was returned
GroupStage == ex_value.v["$group"]

\* the output keys whose accumulator the caller built with Aggregation.count()
CountedKeys ==
    {k \in DOMAIN ex_args.v["recipe"].v : ex_args.v["recipe"].v[k].v[1] = Str("count")}

\* what the claim says of the accumulators: every entry of acc is in S as
\* it was given, and an entry built by count() is {"$count": {}}, not {"$sum": 1}
AccumulatorsKept ==
    /\ ex_value.t = "dict"
    /\ DOMAIN ex_value.v = {"$group"}
    /\ \A k \in DOMAIN ex_args.v["accumulators"].v :
        /\ k \in DOMAIN GroupStage.v
        /\ GroupStage.v[k] = ex_args.v["accumulators"].v[k]
    /\ \A k \in CountedKeys :
        /\ GroupStage.v[k] = Dict([j \in {"$count"} |-> EmptyDict])
        /\ GroupStage.v[k] # Dict([j \in {"$sum"} |-> Num("1")])

\* C21 (as stated): Aggregation.group(g, acc) returns {"$group": S} with
\* S._id equal to g and S[k] equal to acc[k] for every key k of acc, for
\* every accumulator mapping acc; an entry built with Aggregation.count() is
\* {"$count": {}} and never {"$sum": 1}.
C21_GroupKeepsKeyAndAccumulators ==
    GroupReturned =>
        /\ AccumulatorsKept
        /\ GroupStage.v["_id"] = ex_args.v["group_by"]

\* C21 (amended): S[k] equals acc[k] for every key k of acc, with count()
\* entries {"$count": {}}, and S._id equals g for every accumulator mapping
\* that has no key "_id"; an entry acc["_id"] takes the place of g.
C21_GroupKeepsAccumulators ==
    GroupReturned =>
        /\ AccumulatorsKept
        /\ "_id" \notin DOMAIN ex_args.v["accumulators"].v
              => GroupStage.v["_id"] = ex_args.v["group_by"]
        /\ "_id" \in DOMAIN ex_args.v["accumulators"].v
              => GroupStage.v["_id"] = ex_args.v["accumulators"].v["_id"]

\* group("$city", {"n": count()}) has returned
C21_Witness ==
    /\ GroupReturned
    /\ ex_args.v["group_by"] = Str("$city")
    /\ DOMAIN ex_args.v["accumulators"].v = {"n"}
    /\ CountedKeys = {"n"}

\* the constructor of an accumulator has returned
AccumulatorReturned == ex_pc = "returned" /\ ex_fn \in AccumulatorNames

\* the wire name of each accumulator
AccumulatorWireName(constructor) ==
    CASE constructor = "sum"        -> "$sum"
      [] constructor = "avg"        -> "$avg"
      [] constructor = "min_"       -> "$min"
      [] constructor = "max_"       -> "$max"
      [] constructor = "push"       -> "$push"
      [] constructor = "add_to_set" -> "$addToSet"
      [] constructor = "first"      -> "$first"
      [] constructor = "last"       -> "$last"

\* C22: every accumulator constructor returns {"$<operator>": x} with its
\* operand x exactly as given, type and sigil included: a number stays a
\* number, "$1" stays "$1" and "1" stays "1", so sum(1) is {"$sum": 1} and
\* differs from what sum("$1") and sum("1") return.
C22_OperandKeptAsGiven ==
    AccumulatorReturned =>
        /\ ex_value.t = "dict"
        /\ DOMAIN ex_value.v = {AccumulatorWireName(ex_fn)}
        /\ ex_value.v[AccumulatorWireName(ex_fn)] = ex_args.v["expression"]
        /\ (ex_fn = "sum" /\ ex_args.v["expression"] = Num("1")) =>
              /\ ex_value = Dict([j \in {"$sum"} |-> Num("1")])
              /\ ex_value # Dict([j \in {"$sum"} |-> Str("$1")])
              /\ ex_value # Dict([j \in {"$sum"} |-> Str("1")])

\* sum(1) has returned
C22_Witness ==
    /\ AccumulatorReturned
    /\ ex_fn = "sum"
    /\ ex_args.v["expression"] = Num("1")
---------------------------------------------------------------------------
(* Properties of Query.and_, Query.or_ and the comparisons *)

\* Query.and_ or Query.or_ has returned
LogicalReturned == ex_pc = "returned" /\ ex_fn \in {"and_", "or_"}

LogicalWireName(constructor) == IF constructor = "and_" THEN "$and" ELSE "$or"

\* the list under "$and" or "$or" in what was returned
LogicalList == ex_value.v[LogicalWireName(ex_fn)]

\* C23: Query.and_ (and likewise Query.or_) returns {"$and": [c1, ..., ck]}
\* (respectively "$or") with the operands in call order, none dropped and
\* none deduplicated; with zero operands it returns {"$and": []} and does
\* not fail.
C23_OperandsInCallOrder ==
    LogicalReturned =>
        /\ ex_value.t = "dict"
        /\ DOMAIN ex_value.v = {LogicalWireName(ex_fn)}
        /\ LogicalList.t = "list"
        /\ Len(LogicalList.v) = Len(ex_args.v["conditions"].v)
        /\ \A i \in 1..Len(ex_args.v["conditions"].v) :
              LogicalList.v[i] = ex_args.v["conditions"].v[i]
        /\ Len(ex_args.v["conditions"].v) = 0 =>
              ex_value = Dict([j \in {LogicalWireName(ex_fn)} |-> List(<<>>)])

\* and_ has returned for three operands, the first two of them the same
C23_Witness ==
    /\ LogicalReturned
    /\ ex_fn = "and_"
    /\ Len(ex_args.v["conditions"].v) = 3
    /\ ex_args.v["conditions"].v[1] = ex_args.v["conditions"].v[2]
    /\ ex_args.v["conditions"].v[3] # ex_args.v["conditions"].v[2]

\* Query.eq, ne, gt, gte, lt or lte has returned
ComparisonReturned == ex_pc = "returned" /\ ex_fn \in ComparisonNames

\* "$" followed by the name of the constructor
ComparisonWireName(constructor) ==
    CASE constructor = "eq"  -> "$eq"
      [] constructor = "ne"  -> "$ne"
      [] constructor = "gt"  -> "$gt"
      [] constructor = "gte" -> "$gte"
      [] constructor = "lt"  -> "$lt"
      [] constructor = "lte" -> "$lte"

\* C24: for every field f and value v, each of Query.eq, ne, gt, gte, lt
\* and lte returns exactly the single-key mapping {f: {"$<op>": v}} for its
\* own operator name, with v unchanged.
C24_ComparisonShape ==
    ComparisonReturned =>
        /\ ex_value.t = "dict"
        /\ DOMAIN ex_value.v = {ex_args.v["field"].v}
        /\ ex_value.v[ex_args.v["field"].v].t = "dict"
        /\ DOMAIN ex_value.v[ex_args.v["field"].v].v = {ComparisonWireName(ex_fn)}
        /\ ex_value.v[ex_args.v["field"].v].v[ComparisonWireName(ex_fn)]
              = ex_args.v["value"]

\* gte has returned for a field and a value that is a mapping itself
C24_Witness ==
    /\ ComparisonReturned
    /\ ex_fn = "gte"
    /\ ex_args.v["field"] = Str("age")
    /\ ex_args.v["value"].t = "dict"
---------------------------------------------------------------------------
(* Properties of the facade against a server *)

\* the number of documents the server held that satisfy the filter of a
\* call: every document for no filter or {}, those aged 30 or more for
\* {"age": {"$gte": 30}}
ServerCount(documents, filter) ==
    Cardinality({i \in 1..Len(documents) :
                    \/ filter.t = "NoneType"
                    \/ (filter.t = "dict" /\ DOMAIN filter.v = {})
                    \/ (filter.t = "dict" /\ DOMAIN filter.v = {"age"}
                        /\ IntOf(documents[i].v["age"].v) >= 30)})

\* the collection holds the fixture: three documents, of ages 25, 30 and 35
IsFixture(documents) ==
    /\ Len(documents) = 3
    /\ {documents[i].v["age"] : i \in 1..Len(documents)} = Ages

\* count({}), delete_many({"age": {"$gte": 30}}) and count({}) are the calls
\* i, i + 1 and i + 2 of the log, the first of them made on the fixture
ScenarioAt(i) ==
    /\ i + 2 <= Len(sc_log)
    /\ \A k \in 1..Len(ScenarioSteps) : sc_log[i + k - 1].op = ScenarioSteps[k]
    /\ sc_log[i].arg.t = "NoneType"
    /\ IsFixture(sc_log[i].docs)
    /\ sc_log[i + 1].arg = AgeAtLeast30
    /\ sc_log[i + 2].arg.t = "NoneType"

\* C25: against a server that obeys the wire contract, with the documents
\* of ages 25, 30 and 35 in the collection count({}) returns 3, then
\* delete_many({"age": {"$gte": 30}}) returns 2 and the count({}) that
\* follows returns 1; and at every step the number count or delete_many
\* returns is the number the server counted.
C25_ScenarioCounts ==
    /\ \A i \in 1..Len(sc_log) :
          sc_log[i].op \in {"count", "delete_many"} =>
              sc_log[i].returned =
                  Return(Num(Numeral(ServerCount(sc_log[i].docs, sc_log[i].arg))))
    /\ \A i \in 1..Len(sc_log) :
          ScenarioAt(i) =>
              /\ sc_log[i].returned = Return(Num("3"))
              /\ sc_log[i + 1].returned = Return(Num("2"))
              /\ sc_log[i + 2].returned = Return(Num("1"))

\* the three calls of the scenario have been made on the fixture
C25_Witness == \E i \in 1..Len(sc_log) : ScenarioAt(i)
---------------------------------------------------------------------------
(* Algebra of UpdateBuilder.combine *)

\* the compositions of a, b and c have been evaluated
ComposeReturned == ex_pc = "returned" /\ ex_fn = "combine"

\* C26: combine is associative with the empty call as identity: for update
\* documents a, b, c whose values are field maps,
\* combine(combine(a, b), c) = combine(a, combine(b, c)) = combine(a, b, c),
\* combine() = {}, combine(a) = a and combine(a, a) = a.
C26_CombineAssociative ==
    ComposeReturned =>
        /\ ex_value.v["left"] = ex_value.v["right"]
        /\ ex_value.v["right"] = ex_value.v["flat"]
        /\ ex_value.v["empty"] = EmptyDict
        /\ ex_value.v["single"] = ex_args.v["a"]
        /\ ex_value.v["twice"] = ex_args.v["a"]

\* a and b set the same field to different values, c has that field under
\* $set too and another operator besides
C26_Witness ==
    /\ ComposeReturned
    /\ ex_args.v["a"] = UpdateBuilder_set("a", Num("1"))
    /\ ex_args.v["b"] = UpdateBuilder_set("a", Num("2"))
    /\ DOMAIN ex_args.v["c"].v = {"$set", "$inc"}
    /\ ex_value.v["flat"] # ex_args.v["a"]
---------------------------------------------------------------------------
(* Properties of the requests' methods and paths *)

\* two operations have been called and their requests sent
RouteReturned == ex_pc = "returned" /\ ex_fn = "route"

\* some collection or index name of the two calls has a "/" in it
SlashInNames ==
    \E c \in 1..2, n \in 2..3 :
        \E k \in 1..Len(ex_args.v[c].v[n].v) : ex_args.v[c].v[n].v[k] = Str("/")

\* C27: two requests issued by different operations, or by the same
\* operation on different collection or index names, never have the same
\* method and path, for every collection and index name, names with "/"
\* in them included.
C27_MethodAndPathDetermineTarget ==
    (RouteReturned /\ ex_args.v[1] # ex_args.v[2]) => ex_value.v[1] # ex_value.v[2]

\* the same, for names without "/"
PlainNamesDetermineTarget ==
    (RouteReturned /\ ~SlashInNames /\ ex_args.v[1] # ex_args.v[2])
        => ex_value.v[1] # ex_value.v[2]
---------------------------------------------------------------------------
(* Properties of the success flag *)

\* C28: create_collection, drop_collection, the create_*_index operations
\* and drop_index never return False: whatever the server replies, they
\* return a true value or raise a Transport or an API error.
C28_SuccessFlagNeverFalse ==
    (Ended /\ call.op \in OkFlagOps) =>
        \/ (Returned(result) /\ Truthy(result.value))
        \/ TransportError(result)
        \/ ApiError(result)

\* the part of C28 about the value: what these operations return is never
\* False nor any other false value
ReturnedFlagIsTrue ==
    (Ended /\ call.op \in OkFlagOps /\ Returned(result)) => Truthy(result.value)

\* C29: _request returns a body only when the body's ok is the boolean
\* true; a success-status reply with any other ok (absent, false, null, a
\* number, a string) ends in an API error.
C29_OnlyBooleanTrueAccepted ==
    /\ (Ended /\ Returned(outcome)) =>
          /\ ObjectBody
          /\ Has(reply.content, "ok")
          /\ reply.content.v["ok"] = True
    /\ (Ended /\ SuccessStatus /\ ObjectBody
          /\ Get(reply.content, "ok", Absent) # True) => ApiError(outcome)
---------------------------------------------------------------------------
(* Index configs and the bodies of the create_*_index operations *)

\* an Index.create_*_config builder has returned
ConfigReturned == ex_pc = "returned" /\ ex_fn \in IndexKinds

\* the body the Collection operation sends for the same arguments
CollectionBody ==
    CASE ex_fn = "create_index" ->
            Collection_create_index_request(<<"users">>, ex_args.v["field"],
                ex_args.v["unique"], ex_args.v["name"], ex_args.v["sparse"]).body
      [] ex_fn = "create_compound_index" ->
            Collection_create_compound_index_request(<<"users">>, ex_args.v["fields"],
                ex_args.v["unique"], ex_args.v["name"]).body
      [] ex_fn = "create_text_index" ->
            Collection_create_text_index_request(<<"users">>, ex_args.v["fields"],
                ex_args.v["name"]).body
      [] ex_fn = "create_geo_index" ->
            Collection_create_geo_index_request(<<"users">>, ex_args.v["field"],
                ex_args.v["geo_type"], ex_args.v["name"]).body
      [] ex_fn = "create_ttl_index" ->
            Collection_create_ttl_index_request(<<"users">>, ex_args.v["field"],
                ex_args.v["expire_after_seconds"], ex_args.v["name"]).body
      [] ex_fn = "create_partial_index" ->
            Collection_create_partial_index_request(<<"users">>, ex_args.v["field"],
                ex_args.v["filter_expr"], ex_args.v["unique"], ex_args.v["name"]).body

\* C30: for the same arguments each Index.create_*_config builder (text
\* with no weights) returns exactly the body the corresponding
\* Collection.create_*_index operation sends, and has no `name` when no
\* name or an empty name is given.
C30_ConfigEqualsRequestBody ==
    ConfigReturned =>
        /\ ex_value = CollectionBody
        /\ ("name" \in DOMAIN ex_value.v) <=>
              (ex_args.v["name"].t = "str" /\ ex_args.v["name"].v # "")

\* the btree config has returned for an empty name
C30_Witness ==
    /\ ConfigReturned
    /\ ex_fn = "create_index"
    /\ ex_args.v["name"] = Str("")
    /\ ex_args.v["unique"] = True

====
